---- MODULE Spec2Model ----
(***************************************************************************)
(* A model of the access-review pipeline of the SAP access review          *)
(* application: the review-cycle lifecycle (generic update, import, clear, *)
(* delete), the identity matcher and the flags of the import route, the    *)
(* finding decision workflow with its counter aggregation, the application *)
(* profile completeness score, report creation, SoD conflict rules and the *)
(* default framework.  The tables of the relational store are the          *)
(* variables.  A request handler is one atomic action where requests are   *)
(* served one after the other; where requests overlap, every awaited       *)
(* statement of a handler is a step of its own and the handler keeps what  *)
(* it read in its locals.                                                  *)
(***************************************************************************)
EXTENDS Integers, Sequences, FiniteSets, TLC

VARIABLES
    reviews,       \* table review_cycles: id -> row, or NoRow
    records,       \* table user_access_records, grouped by reviewCycleId, in insert order
    employees,     \* table employees, in the order findMany() returns it
    findings,      \* table findings: id -> row
    applications,  \* table applications: id -> row, or NoRow
    frameworks,    \* table frameworks: id -> row, or NoRow
    roles,         \* table application_roles, in insert order
    sodConflicts,  \* table sod_conflicts, in insert order
    reports,       \* table reports, in insert order
    now,           \* the wall clock read by new Date()
    resp,          \* the last request handled and its response
    inflight       \* the requests between two statements: request -> its locals

vars == <<reviews, records, employees, findings, applications, frameworks,
          roles, sodConflicts, reports, now, resp, inflight>>

-----------------------------------------------------------------------------
(* Values shared by all handlers *)

\* SQL NULL / JavaScript null in a string-typed column or field
Null == "<null>"
\* a field absent from a request body (JavaScript undefined)
Undefined == "<undefined>"
\* a table slot holding no row
NoRow == [exists |-> FALSE]
\* a nullable timestamp column holding NULL; clock values start above it
NoTime == 0
\* auth() resolving to no session
NoSession == [id |-> "<none>", role |-> "<none>"]

\* bound: the number of requests handled on two cycles; each one reads a later clock value
MaxTime == 2
\* bound: the number of requests handled on a single cycle
MaxDepth == 3
\* bound: the number of imports handled against a drawn roster
MaxMatchOps == 1
\* bound: the number of application requests handled
MaxAppOps == 2
\* bound: the clock value at which requests on the loaded cycles stop
MaxLoadedTime == 6
\* bound: the number of SoD conflict requests handled
MaxConflictOps == 3
\* bound: the number of imports handled against the role catalog
MaxSodOps == 1
\* bound: the longest list of role names of one imported record
MaxRoleNames == 3
\* bound: the number of imports handled around the ninetieth day
MaxDormantOps == 3
\* bound: the number of framework requests handled
MaxFrameworkOps == 3
\* bound: the length of the record list of a large import payload
MaxLargeBatch == 12
\* bound: the number of large imports handled
MaxLargeOps == 1
\* bound: the clock value at which imports into the loaded cycles stop
MaxSchemaTime == 6
\* bound: the clock value at which catalog and finding requests stop
MaxSnapshotTime == 3
\* bound: the number of report requests handled
MaxReportOps == 2
\* bound: the number of finding updates handled
MaxFindingOps == 2
\* bound: the longest record list of one import payload
MaxBatch == 2

UserRoles == {"ADMINISTRATOR", "ISO", "ANALYST", "AUDITOR"}

\* rows of table users: one signed-in user per role
Users ==
    { [id |-> "u-admin", role |-> "ADMINISTRATOR"],
      [id |-> "u-iso", role |-> "ISO"],
      [id |-> "u-analyst", role |-> "ANALYST"],
      [id |-> "u-auditor", role |-> "AUDITOR"] }

Sessions == Users \cup {NoSession}

\* the role check shared by the mutating handlers of analysts
MayMutate(session) == session.role \in {"ADMINISTRATOR", "ISO", "ANALYST"}

\* the role check of the clear handler
MayClear(session) == session.role \in {"ADMINISTRATOR", "ISO"}

\* the role check of the review delete handler
MayDelete(session) == session.role = "ADMINISTRATOR"

\* JavaScript truthiness of a string-or-null value
Truthy(v) == v # Null /\ v # Undefined /\ v # ""

\* a response without payload
Reply(op, target, code, error) ==
    [op |-> op, target |-> target, code |-> code, error |-> error]

-----------------------------------------------------------------------------
(* Strings of the import: String.prototype.toLowerCase and zod's email() *)

EmailStrings == {"jdoe@co.com", "JDoe@Co.com", "asmith@co.com"}
IdStrings == {"e100", "E100", "e200", "ghost"}
Strings == EmailStrings \cup IdStrings

ToLower(s) ==
    CASE s = "JDoe@Co.com" -> "jdoe@co.com"
      [] s = "E100" -> "e100"
      [] s = "Approver" -> "approver"
      [] s = "REQUESTER" -> "requester"
      [] s = "Requester" -> "requester"
      [] s = "Auditor" -> "auditor"
      [] s = "Clerk" -> "clerk"
      [] OTHER -> s

\* z.string().email()
IsEmail(s) == s \in EmailStrings

-----------------------------------------------------------------------------
(* Identity matcher: the employee index and its two lookups *)

EmptyMap == [k \in {} |-> NoRow]

MapSet(m, k, v) == [x \in (DOMAIN m) \cup {k} |-> IF x = k THEN v ELSE m[x]]

MapGet(m, k) == IF k \in DOMAIN m THEN m[k] ELSE NoRow

\* allEmployees.forEach: one Map keyed by lowercased email and lowercased employeeId
RECURSIVE EmployeeMapUpTo(_, _)
EmployeeMapUpTo(emps, n) ==
    IF n = 0 THEN EmptyMap
    ELSE LET m0 == EmployeeMapUpTo(emps, n - 1)
             emp == emps[n]
             m1 == IF Truthy(emp.email) THEN MapSet(m0, ToLower(emp.email), emp) ELSE m0
         IN  IF Truthy(emp.employeeId) THEN MapSet(m1, ToLower(emp.employeeId), emp) ELSE m1

employeeMap(emps) == EmployeeMapUpTo(emps, Len(emps))

\* "Match by email first"
EmailLookup(map, record) ==
    IF Truthy(record.email) THEN MapGet(map, ToLower(record.email)) ELSE NoRow

\* "Match by username if no email match"
matchedEmployee(map, record) ==
    LET byEmail == EmailLookup(map, record)
    IN  IF byEmail.exists THEN byEmail ELSE MapGet(map, ToLower(record.username))

-----------------------------------------------------------------------------
(* Review cycles: rows, and the payloads the handlers are driven with *)

ReviewIds == {"r1", "r2"}

ReviewStatuses ==
    { "DRAFT", "DATA_COLLECTION", "ANALYSIS_PENDING", "ANALYSIS_COMPLETE",
      "IN_REVIEW", "PENDING_ATTESTATION", "COMPLETED", "ARCHIVED" }

\* the row POST /api/reviews inserts: status DRAFT, the nullable columns NULL, counters 0
NewReview ==
    [ exists |-> TRUE, applicationId |-> "a1", frameworkId |-> "fw1", status |-> "DRAFT",
      startedAt |-> NoTime, snapshotDate |-> NoTime, completedAt |-> NoTime,
      totalFindings |-> 0, criticalFindings |-> 0, highFindings |-> 0,
      mediumFindings |-> 0, lowFindings |-> 0 ]

\* date strings a caller can send; new Date(s) of anything else is an Invalid Date
DateStrings ==
    {"2023-12-31", "2024-01-01", "2024-01-01T12:00:00Z", "2024-01-02", "2024-12-31"}
IsDate(s) == s \in DateStrings

\* clock ticks in a day: the model's clock counts half days
DayTicks == 2

\* new Date(s).getTime() on the model's clock, whose tick 1 is 2024-01-01T00:00Z
ParseDate(s) ==
    CASE s = "2023-12-31" -> 1 - DayTicks
      [] s = "2024-01-01" -> 1
      [] s = "2024-01-01T12:00:00Z" -> 2
      [] s = "2024-01-02" -> 1 + DayTicks
      [] s = "2024-12-31" -> 1 + 365 * DayTicks
      [] OTHER -> NoTime

\* statuses the update bodies carry: one per case the handlers tell apart
UpdateStatuses == {"DRAFT", "DATA_COLLECTION", "IN_REVIEW", "COMPLETED", "ARCHIVED"}

\* bodies of PUT /api/reviews/[id]: a status, or a snapshotDate
ReviewUpdates ==
    [status : UpdateStatuses, snapshotDate : {Undefined}]
        \cup [status : {Undefined}, snapshotDate : {Null, "2024-01-01"}]

\* the records a valid import payload is drawn from: matched by email, unmatched,
\* and one whose lastLoginAt is no date
\* the roles field is the list record.roles || [] reads: empty when left out
ImportRecs ==
    { [username |-> "jdoe", email |-> "JDoe@Co.com", roles |-> <<>>, lastLoginAt |-> "2024-01-01"],
      [username |-> "ghost", email |-> Undefined, roles |-> <<>>, lastLoginAt |-> Undefined],
      [username |-> "broken", email |-> Undefined, roles |-> <<>>, lastLoginAt |-> "not-a-date"] }

\* a payload importSchema refuses: its second record has an empty username
InvalidBody ==
    [ records |->
        << [username |-> "ghost", email |-> Undefined, roles |-> <<>>, lastLoginAt |-> Undefined],
           [username |-> "", email |-> Undefined, roles |-> <<>>, lastLoginAt |-> Undefined] >> ]

\* a payload importSchema refuses: the email of its first record is no address
InvalidEmailBody ==
    [ records |->
        << [username |-> "jdoe", email |-> "jdoe-at-co.com", roles |-> <<>>, lastLoginAt |-> Undefined],
           [username |-> "ghost", email |-> Undefined, roles |-> <<>>, lastLoginAt |-> Undefined] >> ]

SeqsUpTo(S, n) == UNION { [1..k -> S] : k \in 0..n }

ImportBodies == [records : SeqsUpTo(ImportRecs, MaxBatch)] \cup {InvalidBody}

\* the schema that lets every payload through
importSchemaAny(body) == TRUE

\* importSchema: username min(1), email email() optional
importSchemaOk(body) ==
    \A i \in 1..Len(body.records) :
        /\ body.records[i].username # ""
        /\ body.records[i].email # Undefined => IsEmail(body.records[i].email)

\* the roster the lifecycle behaviours run against
Roster ==
    << [exists |-> TRUE, id |-> "emp1", employeeId |-> "e100", email |-> "jdoe@co.com"],
       [exists |-> TRUE, id |-> "emp2", employeeId |-> "e200", email |-> Null] >>

-----------------------------------------------------------------------------
(* POST /api/reviews/[id]/import *)

\* rows of a table that belong to one application
OfApplication(table, applicationId) ==
    SelectSeq(table, LAMBDA row : row.applicationId = applicationId)

\* appRoles.forEach: a Map keyed by lowercased role name
RECURSIVE RoleNameMapUpTo(_, _)
RoleNameMapUpTo(appRoles, n) ==
    IF n = 0 THEN EmptyMap
    ELSE MapSet(RoleNameMapUpTo(appRoles, n - 1), ToLower(appRoles[n].name), appRoles[n])

roleNameMap(appRoles) == RoleNameMapUpTo(appRoles, Len(appRoles))

\* the catalog roles the names of userRoles resolve to
MatchedRoles(userRoles, nameMap) ==
    { MapGet(nameMap, ToLower(userRoles[i])) : i \in 1..Len(userRoles) } \ {NoRow}

matchedRoleIds(userRoles, nameMap) == { appRole.id : appRole \in MatchedRoles(userRoles, nameMap) }

hasPrivilegedAccess(userRoles, nameMap) ==
    \E appRole \in MatchedRoles(userRoles, nameMap) : appRole.isPrivileged

\* the conflict check that is content with one of the two roles
hasSodConflictEitherRole(roleIds, conflicts) ==
    \E i \in 1..Len(conflicts) :
        conflicts[i].role1Id \in roleIds \/ conflicts[i].role2Id \in roleIds

\* "Check for SoD conflicts": some rule has both of its roles among the matched ids
hasSodConflict(roleIds, conflicts) ==
    \E i \in 1..Len(conflicts) :
        conflicts[i].role1Id \in roleIds /\ conflicts[i].role2Id \in roleIds

\* the dormancy threshold, in days
DormantDays == 90

\* Math.floor((Date.now() - lastLogin.getTime()) / (1000 * 60 * 60 * 24))
daysSinceLogin(lastLoginAt, t) == (t - ParseDate(lastLoginAt)) \div DayTicks

\* the dormancy check reading the threshold of the framework
isDormantByFramework(record, t) ==
    /\ Truthy(record.lastLoginAt)
    /\ IsDate(record.lastLoginAt)
    /\ daysSinceLogin(record.lastLoginAt, t) >= frameworks["fw1"].dormantDays

\* "Check for dormant account (no login in 90+ days)"; an Invalid Date gives NaN,
\* and NaN >= 90 is false
isDormant(record, t) ==
    /\ Truthy(record.lastLoginAt)
    /\ IsDate(record.lastLoginAt)
    /\ daysSinceLogin(record.lastLoginAt, t) >= DormantDays

\* the values of one insert into user_access_records
NewAccessRecord(record, emp, ctx) ==
    [ username |-> record.username, email |-> record.email,
      employeeId |-> IF emp.exists THEN emp.id ELSE Null,
      roles |-> record.roles,
      lastLoginAt |-> IF Truthy(record.lastLoginAt) THEN ParseDate(record.lastLoginAt)
                      ELSE NoTime,
      hasPrivilegedAccess |-> hasPrivilegedAccess(record.roles, ctx.roleNameMap),
      hasSodConflict |->
          hasSodConflict(matchedRoleIds(record.roles, ctx.roleNameMap), ctx.sodConflicts),
      isDormant |-> isDormant(record, ctx.now),
      reviewStatus |-> "PENDING" ]

\* an Invalid Date in a timestamp column makes the insert throw
InsertThrows(record) == Truthy(record.lastLoginAt) /\ ~IsDate(record.lastLoginAt)

EmptyImport ==
    [importedRecords |-> <<>>, errors |-> <<>>, matchedCount |-> 0, unmatchedCount |-> 0]

\* the loop body with the else branch of the match count left out
ImportStepNoUnmatched(acc, record, ctx) ==
    LET emp == matchedEmployee(ctx.employeeMap, record)
        counted == [acc EXCEPT !.matchedCount = IF emp.exists THEN @ + 1 ELSE @]
    IN  IF InsertThrows(record)
        THEN [counted EXCEPT !.errors =
                 Append(@, [record |-> record.username, error |-> "Invalid time value"])]
        ELSE [counted EXCEPT !.importedRecords = Append(@, NewAccessRecord(record, emp, ctx))]

\* one pass of the for loop: match, count, tag, insert or catch; ctx holds what the
\* handler loaded before the loop
ImportStep(acc, record, ctx) ==
    LET emp == matchedEmployee(ctx.employeeMap, record)
        counted ==
            [acc EXCEPT !.matchedCount = IF emp.exists THEN @ + 1 ELSE @,
                        !.unmatchedCount = IF emp.exists THEN @ ELSE @ + 1]
    IN  IF InsertThrows(record)
        THEN [counted EXCEPT !.errors =
                 Append(@, [record |-> record.username, error |-> "Invalid time value"])]
        ELSE [counted EXCEPT !.importedRecords = Append(@, NewAccessRecord(record, emp, ctx))]

RECURSIVE ImportLoop(_, _, _)
ImportLoop(batch, n, ctx) ==
    IF n = 0 THEN EmptyImport
    ELSE ImportStep(ImportLoop(batch, n - 1, ctx), batch[n], ctx)

\* errors.slice(0, 10)
ErrorDetailsCap == 10

\* the error list returned whole
SliceAll(s, n) == s

Slice(s, n) == SubSeq(s, 1, IF Len(s) < n THEN Len(s) ELSE n)

ImportData(acc) ==
    [ imported |-> Len(acc.importedRecords), matched |-> acc.matchedCount,
      unmatched |-> acc.unmatchedCount, errors |-> Len(acc.errors),
      errorDetails |-> Slice(acc.errors, ErrorDetailsCap) ]

\* the import guard letting every cycle that is not finished through
ImportAllowedUnlessFinished(status) == status \notin {"COMPLETED", "ARCHIVED"}

\* the states import accepts
ImportAllowed(status) == status \in {"DRAFT", "DATA_COLLECTION"}

\* the review update stamping startedAt only where the column holds NULL
ImportTransitionKeepStarted(review, t) ==
    IF review.status = "DRAFT"
    THEN [review EXCEPT !.status = "DATA_COLLECTION",
                        !.startedAt = IF @ = NoTime THEN t ELSE @,
                        !.snapshotDate = t]
    ELSE review

\* the review update that follows the loop
ImportTransition(review, t) ==
    IF review.status = "DRAFT"
    THEN [review EXCEPT !.status = "DATA_COLLECTION", !.startedAt = t, !.snapshotDate = t]
    ELSE review

\* the insert replacing the stored rows that have the username of a new row
UpsertRecords(stored, inserted) ==
    SelectSeq(stored, LAMBDA old :
        \A i \in 1..Len(inserted) : inserted[i].username # old.username) \o inserted

\* the rows of the cycle after the inserts of the loop: user_access_records has no
\* unique key besides id, every insert adds a row
InsertRecords(stored, inserted) == stored \o inserted

ImportPOST(session, id, body) ==
    LET review == reviews[id]
        ctx == [ employeeMap |-> employeeMap(employees),
                 roleNameMap |-> roleNameMap(OfApplication(roles, review.applicationId)),
                 sodConflicts |-> OfApplication(sodConflicts, review.applicationId),
                 now |-> now + 1 ]
        acc == ImportLoop(body.records, Len(body.records), ctx)
        reject(code, error) ==
            /\ resp' = Reply("import", id, code, error)
            /\ UNCHANGED <<reviews, records>>
    IN  /\ now' = now + 1
        /\ UNCHANGED inflight
        /\ UNCHANGED <<employees, findings, applications, frameworks, roles, sodConflicts, reports>>
        /\ IF session = NoSession THEN reject(401, "Unauthorized")
           ELSE IF ~MayMutate(session) THEN reject(403, "Forbidden")
           ELSE IF ~review.exists THEN reject(404, "Review not found")
           ELSE IF ~ImportAllowed(review.status) THEN reject(400, "Cannot import data")
           ELSE IF ~importSchemaOk(body) THEN reject(400, "Validation error")
           ELSE /\ records' = [records EXCEPT ![id] = InsertRecords(@, acc.importedRecords)]
                /\ reviews' = [reviews EXCEPT ![id] = ImportTransition(review, now + 1)]
                /\ resp' = [ op |-> "import", target |-> id, code |-> 200, error |-> "",
                             request |-> body.records, data |-> ImportData(acc) ]

-----------------------------------------------------------------------------
(* PUT /api/reviews/[id], DELETE /api/reviews/[id]/access-records,          *)
(* DELETE /api/reviews/[id]                                                 *)

\* "Set timestamps based on status changes": stamp only a column that holds NULL
StampStartedAt(existing, status, t) ==
    IF status = "DATA_COLLECTION" /\ existing.startedAt = NoTime THEN t ELSE existing.startedAt

\* the update that leaves completed_at as it is, whatever the new status
KeepCompletedAt(existing, status, t) == existing.completedAt

StampCompletedAt(existing, status, t) ==
    IF status = "COMPLETED" /\ existing.completedAt = NoTime THEN t ELSE existing.completedAt

\* updateData applied to the row: only the fields the body carries are written
ReviewUpdate(existing, body, t) ==
    LET withStatus ==
            IF body.status # Undefined
            THEN [existing EXCEPT !.status = body.status,
                                  !.startedAt = StampStartedAt(existing, body.status, t),
                                  !.completedAt = StampCompletedAt(existing, body.status, t)]
            ELSE existing
    IN  IF body.snapshotDate # Undefined
        THEN [withStatus EXCEPT !.snapshotDate =
                 IF Truthy(body.snapshotDate) THEN ParseDate(body.snapshotDate) ELSE NoTime]
        ELSE withStatus

ReviewPUT(session, id, body) ==
    LET existingReview == reviews[id]
        reject(code, error) ==
            /\ resp' = Reply("reviewPut", id, code, error)
            /\ UNCHANGED <<reviews>>
    IN  /\ now' = now + 1
        /\ UNCHANGED inflight
        /\ UNCHANGED <<records, employees, findings, applications, frameworks, roles, sodConflicts, reports>>
        /\ IF session = NoSession THEN reject(401, "Unauthorized")
           ELSE IF ~MayMutate(session) THEN reject(403, "Forbidden")
           ELSE IF ~existingReview.exists THEN reject(404, "Review not found")
           ELSE /\ reviews' = [reviews EXCEPT ![id] = ReviewUpdate(existingReview, body, now + 1)]
                /\ resp' = Reply("reviewPut", id, 200, "")

\* the clear guard letting every cycle that is not finished through
ClearAllowedUnlessFinished(status) == status \notin {"COMPLETED", "ARCHIVED"}

\* the states clear accepts
ClearAllowed(status) == status \in {"DRAFT", "DATA_COLLECTION"}

\* findings.user_access_record_id references user_access_records without a
\* cascade: the delete fails while a finding is tied to a record of the cycle
\* (a finding is tied to a record of its own cycle)
RecordsReferenced(id) ==
    \E f \in DOMAIN findings :
        /\ findings[f].exists
        /\ findings[f].reviewCycleId = id
        /\ findings[f].userAccessRecordId # Null

\* "Reset review to DRAFT status"
ClearReset(review) ==
    [review EXCEPT !.status = "DRAFT", !.startedAt = NoTime, !.snapshotDate = NoTime]

ClearDELETE(session, id) ==
    LET review == reviews[id]
        reject(code, error) ==
            /\ resp' = Reply("clear", id, code, error)
            /\ UNCHANGED <<reviews, records>>
    IN  /\ now' = now + 1
        /\ UNCHANGED inflight
        /\ UNCHANGED <<employees, findings, applications, frameworks, roles, sodConflicts, reports>>
        /\ IF session = NoSession THEN reject(401, "Unauthorized")
           ELSE IF ~MayClear(session) THEN reject(403, "Forbidden")
           ELSE IF ~review.exists THEN reject(404, "Review not found")
           ELSE IF ~ClearAllowed(review.status)
                THEN reject(400, "Cannot clear records")
           ELSE IF RecordsReferenced(id)
                THEN reject(500, "Failed to clear access records")
           ELSE /\ records' = [records EXCEPT ![id] = <<>>]
                /\ reviews' = [reviews EXCEPT ![id] = ClearReset(review)]
                /\ resp' = Reply("clear", id, 200, "")

\* the test that archives only what has left data collection
ArchivesOnceInAnalysis(existing) == existing.status \notin {"DRAFT", "DATA_COLLECTION"}

\* "Only allow deletion of DRAFT reviews, archive others"
ArchivesInsteadOfDelete(existing) == existing.status # "DRAFT"

\* reports.review_cycle_id references review_cycles without a cascade: the
\* delete fails while a report names the cycle
ReviewReferenced(id) ==
    \E i \in 1..Len(reports) : reports[i].reviewCycleId = id

ReviewDELETE(session, id) ==
    LET existingReview == reviews[id]
        reject(code, error) ==
            /\ resp' = Reply("reviewDelete", id, code, error)
            /\ UNCHANGED <<reviews, records, findings>>
    IN  /\ now' = now + 1
        /\ UNCHANGED inflight
        /\ UNCHANGED <<employees, applications, frameworks, roles, sodConflicts, reports>>
        /\ IF session = NoSession THEN reject(401, "Unauthorized")
           ELSE IF ~MayDelete(session) THEN reject(403, "Forbidden")
           ELSE IF ~existingReview.exists THEN reject(404, "Review not found")
           ELSE IF ArchivesInsteadOfDelete(existingReview)
                THEN /\ reviews' = [reviews EXCEPT ![id].status = "ARCHIVED"]
                     /\ resp' = Reply("reviewDelete", id, 200, "archived")
                     /\ UNCHANGED <<records, findings>>
           ELSE IF ReviewReferenced(id) THEN reject(500, "Failed to delete review")
           ELSE \* onDelete: 'cascade' on user_access_records and findings
                /\ reviews' = [reviews EXCEPT ![id] = NoRow]
                /\ records' = [records EXCEPT ![id] = <<>>]
                /\ findings' = [f \in DOMAIN findings |->
                                   IF findings[f].exists /\ findings[f].reviewCycleId = id
                                   THEN NoRow ELSE findings[f]]
                /\ resp' = Reply("reviewDelete", id, 200, "deleted")

-----------------------------------------------------------------------------
(* The review-cycle lifecycle: two freshly created cycles, then any requests *)

InitReview ==
    /\ reviews = [r \in ReviewIds |-> NewReview]
    /\ records = [r \in ReviewIds |-> <<>>]
    /\ employees = Roster
    /\ findings = << >>
    /\ applications = << >>
    /\ frameworks = << >>
    /\ roles = << >>
    /\ sodConflicts = << >>
    /\ reports = << >>
    /\ now = NoTime
    /\ inflight = << >>
    /\ resp = Reply("none", "none", 0, "")

\* any request on one of the cycles of ids, while the clock is below bound
Requests(ids, bound) ==
    \E session \in Sessions, id \in ids :
        \/ \E body \in ReviewUpdates : now < bound /\ ReviewPUT(session, id, body)
        \/ \E body \in ImportBodies : now < bound /\ ImportPOST(session, id, body)
        \/ now < bound /\ ClearDELETE(session, id)
        \/ now < bound /\ ReviewDELETE(session, id)

\* MaxTime requests on either cycle
NextReview == Requests(ReviewIds, MaxTime)

\* MaxDepth requests on the first cycle alone
NextDeep == Requests({"r1"}, MaxDepth)

Spec == InitReview /\ [][NextReview]_vars

SpecDeep == InitReview /\ [][NextDeep]_vars

-----------------------------------------------------------------------------
(* Properties of the review-cycle lifecycle *)

Authorised(session) == session # NoSession /\ MayMutate(session)

\* a record the schema accepts and whose dates parse
WellFormedRecord(r) ==
    /\ r.username # ""
    /\ r.email # Undefined => IsEmail(r.email)
    /\ r.lastLoginAt # Undefined => IsDate(r.lastLoginAt)

WellFormedBatch(batch) ==
    /\ \A i \in 1..Len(batch) : WellFormedRecord(batch[i])
    /\ \A i, j \in 1..Len(batch) : batch[i].username = batch[j].username => i = j

\* C1: an import by an authorised caller on an existing cycle whose status is
\* neither DRAFT nor DATA_COLLECTION answers 400 "Cannot import data", inserts no
\* access record and leaves the cycle's row (status, startedAt, snapshotDate) as it was.
C1_ImportRejectedOutsideCollection ==
    [][\A id \in ReviewIds :
          ( /\ resp'.op = "import"
            /\ resp'.target = id
            /\ reviews[id].exists
            /\ reviews[id].status \notin {"DRAFT", "DATA_COLLECTION"} )
          => \A session \in Sessions, body \in ImportBodies :
                (Authorised(session) /\ ImportPOST(session, id, body))
                => ( /\ resp'.code = 400
                     /\ resp'.error = "Cannot import data"
                     /\ records' = records
                     /\ reviews'[id].status = reviews[id].status
                     /\ reviews'[id].startedAt = reviews[id].startedAt
                     /\ reviews'[id].snapshotDate = reviews[id].snapshotDate )]_vars

\* C1 witness: an import was refused on a cycle that is COMPLETED
C1_Witness ==
    /\ resp.op = "import"
    /\ resp.code = 400
    /\ resp.error = "Cannot import data"
    /\ reviews[resp.target].status = "COMPLETED"

\* C2 as stated: after an import of N well-formed records with distinct usernames
\* the cycle holds exactly N access records, imported = N and matched + unmatched = N.
C2_ExactlyNRecordsExist ==
    [][( /\ resp'.op = "import"
         /\ resp'.code = 200
         /\ WellFormedBatch(resp'.request) )
       => ( /\ Len(records'[resp'.target]) = Len(resp'.request)
            /\ resp'.data.imported = Len(resp'.request)
            /\ resp'.data.matched + resp'.data.unmatched = Len(resp'.request) )]_vars

\* C2 amended: after an import of N well-formed records with distinct usernames
\* the cycle holds exactly N access records more than before (the new ones appended
\* in input order after the old ones, which are kept), imported = N and
\* matched + unmatched = N.
C2_NRecordsAdded ==
    [][( /\ resp'.op = "import"
         /\ resp'.code = 200
         /\ WellFormedBatch(resp'.request) )
       => LET id == resp'.target
              batch == resp'.request
          IN  /\ Len(records'[id]) = Len(records[id]) + Len(batch)
              /\ SubSeq(records'[id], 1, Len(records[id])) = records[id]
              /\ \A i \in 1..Len(batch) :
                    records'[id][Len(records[id]) + i].username = batch[i].username
              /\ resp'.data.imported = Len(batch)
              /\ resp'.data.matched + resp'.data.unmatched = Len(batch)]_vars

\* C2 witness: a second import of two well-formed records went into a cycle that
\* already held one, one of the two matched and the other not
C2_Witness ==
    /\ resp.op = "import"
    /\ resp.code = 200
    /\ WellFormedBatch(resp.request)
    /\ resp.data.imported = 2
    /\ resp.data.matched = 1
    /\ resp.data.unmatched = 1
    /\ Len(records[resp.target]) = 3

\* C3 as stated: once startedAt holds a value no step that leaves the cycle in
\* DATA_COLLECTION changes it, and once completedAt holds a value no step that
\* leaves the cycle in COMPLETED changes it.
C3_StampedOnce ==
    [][\A id \in ReviewIds :
          (reviews[id].exists /\ reviews'[id].exists)
          => ( /\ (reviews[id].startedAt # NoTime /\ reviews'[id].status = "DATA_COLLECTION")
                     => reviews'[id].startedAt = reviews[id].startedAt
               /\ (reviews[id].completedAt # NoTime /\ reviews'[id].status = "COMPLETED")
                     => reviews'[id].completedAt = reviews[id].completedAt )]_vars

\* C4 as stated: a cycle that is ARCHIVED stays ARCHIVED whatever request follows.
C4_ArchivedIsTerminal ==
    [][\A id \in ReviewIds :
          (reviews[id].exists /\ reviews[id].status = "ARCHIVED")
          => (reviews'[id].exists /\ reviews'[id].status = "ARCHIVED")]_vars

-----------------------------------------------------------------------------
(* Findings: PUT /api/findings/[id] and the counter aggregation.  Of a     *)
(* finding row the model keeps the columns the status, the decision and     *)
(* the counters depend on.                                                  *)

FindingIds == {"f1", "f2", "f3"}

Severities == {"CRITICAL", "HIGH", "MEDIUM", "LOW", "INFO"}

FindingStatuses ==
    { "OPEN", "IN_REVIEW", "PENDING_REMEDIATION", "REMEDIATED",
      "EXCEPTION_APPROVED", "DISMISSED", "CLOSED" }

Decisions == {"REMEDIATE", "EXCEPTION", "DISMISS"}

\* a finding as the schema defaults leave it: status OPEN, nothing decided
NewFinding(reviewCycleId, severity) ==
    [ exists |-> TRUE, reviewCycleId |-> reviewCycleId, severity |-> severity,
      userAccessRecordId |-> Null,
      status |-> "OPEN", decision |-> Null,
      decidedById |-> Null, decidedAt |-> NoTime,
      exceptionApprovedById |-> Null, exceptionApprovedAt |-> NoTime ]

\* a body the schema refuses: its status is outside the enum
InvalidFindingBody == [status |-> "REOPENED", decision |-> Undefined]

\* bodies of PUT /api/findings/[id]: an optional status and an optional decision
FindingUpdates ==
    [ status : {Undefined, "REMEDIATED", "CLOSED"},
      decision : Decisions \cup {Undefined} ] \cup {InvalidFindingBody}

\* updateFindingSchema.parse succeeds
updateFindingSchemaOk(body) ==
    /\ body.status \in FindingStatuses \cup {Undefined}
    /\ body.decision \in Decisions \cup {Undefined}

\* the decision that sends every finding back to review
DecisionStatusAllInReview(decision) == "IN_REVIEW"

\* "Set status based on decision"
DecisionStatus(decision) ==
    CASE decision = "REMEDIATE" -> "PENDING_REMEDIATION"
      [] decision = "EXCEPTION" -> "EXCEPTION_APPROVED"
      [] decision = "DISMISS" -> "DISMISSED"

\* the update in which a status carried by the body overrides the decision's
FindingUpdateStatusWins(existing, body, userId, t) ==
    LET decided ==
            IF body.decision = Undefined THEN existing
            ELSE [existing EXCEPT !.decision = body.decision,
                                  !.decidedById = userId,
                                  !.decidedAt = t,
                                  !.status = DecisionStatus(body.decision)]
        approved ==
            IF body.decision = "EXCEPTION"
            THEN [decided EXCEPT !.exceptionApprovedById = userId, !.exceptionApprovedAt = t]
            ELSE decided
    IN  IF body.status # Undefined THEN [approved EXCEPT !.status = body.status]
        ELSE approved

\* updateData applied to the row
FindingUpdate(existing, body, userId, t) ==
    LET withStatus ==
            IF body.status # Undefined THEN [existing EXCEPT !.status = body.status]
            ELSE existing
        decided ==
            [withStatus EXCEPT !.decision = body.decision,
                               !.decidedById = userId,
                               !.decidedAt = t,
                               !.status = DecisionStatus(body.decision)]
    IN  IF body.decision = Undefined THEN withStatus
        ELSE IF body.decision = "EXCEPTION"
        THEN [decided EXCEPT !.exceptionApprovedById = userId, !.exceptionApprovedAt = t]
        ELSE decided

\* count(*) filter (where severity = s and status not in (...)) over the cycle's findings
OpenOfSeverity(table, reviewCycleId, severity) ==
    Cardinality({ f \in DOMAIN table :
        /\ table[f].exists
        /\ table[f].reviewCycleId = reviewCycleId
        /\ table[f].severity = severity
        /\ table[f].status \notin {"REMEDIATED", "DISMISSED", "CLOSED"} })

\* count(*) over the cycle's findings
TotalOf(table, reviewCycleId) ==
    Cardinality({ f \in DOMAIN table :
        table[f].exists /\ table[f].reviewCycleId = reviewCycleId })

\* the aggregation that counts every finding of the table, whatever its cycle
CountsOfAllCycles(table, reviewTable, reviewCycleId) ==
    [ reviewTable EXCEPT
        ![reviewCycleId].totalFindings =
            Cardinality({f \in DOMAIN table : table[f].exists}),
        ![reviewCycleId].criticalFindings = OpenOfSeverity(table, reviewCycleId, "CRITICAL"),
        ![reviewCycleId].highFindings = OpenOfSeverity(table, reviewCycleId, "HIGH"),
        ![reviewCycleId].mediumFindings = OpenOfSeverity(table, reviewCycleId, "MEDIUM"),
        ![reviewCycleId].lowFindings = OpenOfSeverity(table, reviewCycleId, "LOW") ]

\* updateReviewCycleCounts: recount, then overwrite the five counters of the cycle
updateReviewCycleCounts(table, reviewTable, reviewCycleId) ==
    [ reviewTable EXCEPT
        ![reviewCycleId].totalFindings = TotalOf(table, reviewCycleId),
        ![reviewCycleId].criticalFindings = OpenOfSeverity(table, reviewCycleId, "CRITICAL"),
        ![reviewCycleId].highFindings = OpenOfSeverity(table, reviewCycleId, "HIGH"),
        ![reviewCycleId].mediumFindings = OpenOfSeverity(table, reviewCycleId, "MEDIUM"),
        ![reviewCycleId].lowFindings = OpenOfSeverity(table, reviewCycleId, "LOW") ]

FindingPUT(session, id, body) ==
    LET existingFinding == findings[id]
        updated == [findings EXCEPT ![id] = FindingUpdate(existingFinding, body, session.id, now + 1)]
        reject(code, error) ==
            /\ resp' = Reply("findingPut", id, code, error)
            /\ UNCHANGED <<findings, reviews>>
    IN  /\ now' = now + 1
        /\ UNCHANGED inflight
        /\ UNCHANGED <<records, employees, applications, frameworks, roles, sodConflicts, reports>>
        /\ IF session = NoSession THEN reject(401, "Unauthorized")
           ELSE IF ~MayMutate(session) THEN reject(403, "Forbidden")
           ELSE IF ~updateFindingSchemaOk(body) THEN reject(400, "Validation error")
           ELSE IF ~existingFinding.exists THEN reject(404, "Finding not found")
           ELSE /\ findings' = updated
                /\ reviews' = updateReviewCycleCounts(updated, reviews, existingFinding.reviewCycleId)
                /\ resp' = [ op |-> "findingPut", target |-> id, code |-> 200, error |-> "",
                             request |-> body, user |-> session.id ]

\* two findings on the first cycle, one on the second, none decided; the counters
\* still hold their defaults, as nothing recounts when a finding is created
InitFinding ==
    /\ reviews = [r \in ReviewIds |-> [NewReview EXCEPT !.status = "IN_REVIEW"]]
    /\ records = [r \in ReviewIds |-> <<>>]
    /\ employees = Roster
    /\ \E s1 \in {"MEDIUM", "LOW", "INFO"} :
          findings = [ f \in FindingIds |->
                         CASE f = "f1" -> NewFinding("r1", s1)
                           [] f = "f2" -> NewFinding("r1", "HIGH")
                           [] f = "f3" -> NewFinding("r2", "CRITICAL") ]
    /\ applications = << >>
    /\ frameworks = << >>
    /\ roles = << >>
    /\ sodConflicts = << >>
    /\ reports = << >>
    /\ now = NoTime
    /\ inflight = << >>
    /\ resp = Reply("none", "none", 0, "")

NextFinding ==
    \E session \in Sessions, id \in FindingIds, body \in FindingUpdates :
        now < MaxFindingOps /\ FindingPUT(session, id, body)

SpecFinding == InitFinding /\ [][NextFinding]_vars

-----------------------------------------------------------------------------
(* Properties of the finding decision workflow and of the aggregation *)

\* the status section 4.6 derives from a decision
DerivedStatus(decision) ==
    IF decision = "REMEDIATE" THEN "PENDING_REMEDIATION"
    ELSE IF decision = "EXCEPTION" THEN "EXCEPTION_APPROVED"
    ELSE "DISMISSED"

\* C5 as stated: every finding that carries a decision has decidedById and
\* decidedAt set and has the status derived from the decision, in every state.
C5_DecidedStatusAlwaysDerived ==
    \A f \in FindingIds :
        (findings[f].exists /\ findings[f].decision # Null)
        => ( /\ findings[f].decidedById # Null
             /\ findings[f].decidedAt # NoTime
             /\ findings[f].status = DerivedStatus(findings[f].decision) )

\* C5 amended: every finding that carries a decision has decidedById and decidedAt
\* set; after each request its status is the one derived from its decision, unless
\* the request was an update of that finding carrying a status and no decision
\* (which sets the status it carries) or the request left the finding as it was.
C5_DecidedStatusDerivedUntilStatusUpdate ==
    [][\A f \in FindingIds :
          (findings'[f].exists /\ findings'[f].decision # Null)
          => ( /\ findings'[f].decidedById # Null
               /\ findings'[f].decidedAt # NoTime
               /\ \/ findings'[f].status = DerivedStatus(findings'[f].decision)
                  \/ findings'[f] = findings[f]
                  \/ /\ resp'.op = "findingPut" /\ resp'.code = 200 /\ resp'.target = f
                     /\ resp'.request.decision = Undefined
                     /\ resp'.request.status # Undefined
                     /\ findings'[f].status = resp'.request.status
                     /\ findings'[f].decision = findings[f].decision )]_vars

\* C5 witness: a finding decided REMEDIATE was afterwards set to REMEDIATED by a
\* status-only update
C5_Witness ==
    /\ resp.op = "findingPut"
    /\ resp.code = 200
    /\ resp.request.decision = Undefined
    /\ findings[resp.target].decision = "REMEDIATE"
    /\ findings[resp.target].status = "REMEDIATED"

\* C6: right after an update that carries a decision the finding has the status
\* derived from it (also when the body carried a status of its own), decidedById
\* is the caller, decidedAt is the time of the request, and for EXCEPTION the
\* exception approver and approval time are the caller and that time as well.
C6_DecisionSetsStatusAndStamps ==
    (resp.op = "findingPut" /\ resp.code = 200 /\ resp.request.decision # Undefined)
    => LET f == findings[resp.target]
           d == resp.request.decision
       IN  /\ f.decision = d
           /\ f.status = DerivedStatus(d)
           /\ f.decidedById = resp.user
           /\ f.decidedAt = now
           /\ f.decidedAt # NoTime
           /\ d = "EXCEPTION" =>
                 (f.exceptionApprovedById = resp.user /\ f.exceptionApprovedAt = now)

\* C6 witness: an EXCEPTION decision whose body also carried status CLOSED
C6_Witness ==
    /\ resp.op = "findingPut"
    /\ resp.code = 200
    /\ resp.request.decision = "EXCEPTION"
    /\ resp.request.status = "CLOSED"
    /\ findings[resp.target].status = "EXCEPTION_APPROVED"
    /\ findings[resp.target].exceptionApprovedAt # NoTime

\* the findings of cycle r of severity sev that are still open after the step
LiveCount(r, sev) ==
    Cardinality({ f \in FindingIds :
        /\ findings'[f].exists
        /\ findings'[f].reviewCycleId = r
        /\ findings'[f].severity = sev
        /\ findings'[f].status # "REMEDIATED"
        /\ findings'[f].status # "DISMISSED"
        /\ findings'[f].status # "CLOSED" })

\* C7: after a finding update, the owning cycle's totalFindings is the number of
\* its findings, each severity counter is the number of its findings of that
\* severity that are not REMEDIATED, DISMISSED or CLOSED, the four counters sum to
\* at most totalFindings, and the row of every other cycle is unchanged.
C7_CountersMatchFindings ==
    [][(resp'.op = "findingPut" /\ resp'.code = 200)
       => LET r == findings[resp'.target].reviewCycleId
              row == reviews'[r]
          IN  /\ row.totalFindings =
                    Cardinality({f \in FindingIds :
                        findings'[f].exists /\ findings'[f].reviewCycleId = r})
              /\ row.criticalFindings = LiveCount(r, "CRITICAL")
              /\ row.highFindings = LiveCount(r, "HIGH")
              /\ row.mediumFindings = LiveCount(r, "MEDIUM")
              /\ row.lowFindings = LiveCount(r, "LOW")
              /\ row.criticalFindings + row.highFindings
                    + row.mediumFindings + row.lowFindings <= row.totalFindings
              /\ \A o \in ReviewIds \ {r} : reviews'[o] = reviews[o]]_vars

\* C7 witness: the first cycle counts two findings, one of them HIGH and still
\* open, the other closed, while the second cycle's counters were never written
C7_Witness ==
    /\ resp.op = "findingPut"
    /\ resp.code = 200
    /\ reviews["r1"].totalFindings = 2
    /\ reviews["r1"].highFindings = 1
    /\ reviews["r1"].criticalFindings + reviews["r1"].mediumFindings
          + reviews["r1"].lowFindings = 0
    /\ findings["f1"].status = "CLOSED"
    /\ reviews["r2"].totalFindings = 0

-----------------------------------------------------------------------------
(* The identity matcher under every small roster: imports of one record into *)
(* a DRAFT cycle, against rosters drawn from the values the employees table  *)
(* admits (employeeId is unique and free text, email is neither).            *)

MatchEmployees ==
    [ exists : {TRUE}, id : {"emp1", "emp2"},
      employeeId : {"e100", "jdoe@co.com"},
      email : {Null, "jdoe@co.com", "JDoe@Co.com"} ]

\* findMany() over the employees table: any order, distinct ids and employeeIds
MatchRosters ==
    { roster \in SeqsUpTo(MatchEmployees, 2) :
        \A i, j \in 1..Len(roster) :
            i # j => ( /\ roster[i].id # roster[j].id
                       /\ roster[i].employeeId # roster[j].employeeId ) }

\* payloads of one record
MatchBodies ==
    { [records |-> <<record>>] :
        record \in [ username : {"e100", "E100", "jdoe@co.com", "ghost"},
                     email : {Undefined, "jdoe@co.com", "JDoe@Co.com", "asmith@co.com"},
                     roles : {<<>>},
                     lastLoginAt : {Undefined} ] }

InitMatch ==
    /\ reviews = [r \in ReviewIds |-> NewReview]
    /\ records = [r \in ReviewIds |-> <<>>]
    /\ employees \in MatchRosters
    /\ findings = << >>
    /\ applications = << >>
    /\ frameworks = << >>
    /\ roles = << >>
    /\ sodConflicts = << >>
    /\ reports = << >>
    /\ now = NoTime
    /\ inflight = << >>
    /\ resp = Reply("none", "none", 0, "")

NextMatch ==
    \E session \in Sessions, body \in MatchBodies :
        now < MaxMatchOps /\ ImportPOST(session, "r1", body)

SpecMatch == InitMatch /\ [][NextMatch]_vars

-----------------------------------------------------------------------------
(* Properties of the identity matcher *)

\* the import that has just stored its one record
StoredOneRecord ==
    /\ resp.op = "import"
    /\ resp.code = 200
    /\ Len(resp.request) = 1
    /\ resp.data.imported = 1

\* the employees whose email equals the record's email, case-insensitively
EmailMatches(record) ==
    { i \in 1..Len(employees) :
        /\ record.email # Undefined
        /\ employees[i].email # Null
        /\ ToLower(employees[i].email) = ToLower(record.email) }

\* the employees whose employeeId equals the record's username, case-insensitively
UsernameMatches(record) ==
    { i \in 1..Len(employees) :
        ToLower(employees[i].employeeId) = ToLower(record.username) }

\* the employees the record may be linked to: those matching by email, or, when
\* none does, those matching username against employeeId
Linkable(record) ==
    IF EmailMatches(record) # {} THEN EmailMatches(record) ELSE UsernameMatches(record)

\* the employee id column of the record the import has just stored
LinkedId == records[resp.target][Len(records[resp.target])].employeeId

\* C8: the stored record is linked to an employee exactly when that employee
\* matches it by email, or no employee matches by email and the employee's
\* employeeId equals the username; it is linked to nobody when neither happens.
C8_LinkedByEmailElseEmployeeId ==
    StoredOneRecord
    => LET record == resp.request[1]
       IN  IF Linkable(record) = {} THEN LinkedId = Null
           ELSE \E i \in Linkable(record) : LinkedId = employees[i].id

\* C9: when the record's email is the email of an employee A and either that same
\* string is the employeeId of another employee B or the record's username is B's
\* employeeId, the record is linked to an employee matching by email.
C9_EmailPrecedence ==
    StoredOneRecord
    => LET record == resp.request[1]
       IN  (\E a \in EmailMatches(record), b \in 1..Len(employees) :
               /\ a # b
               /\ \/ ToLower(employees[b].employeeId) = ToLower(record.email)
                  \/ ToLower(employees[b].employeeId) = ToLower(record.username))
           => \E a \in EmailMatches(record) : LinkedId = employees[a].id

-----------------------------------------------------------------------------
(* Applications: POST /api/applications and PUT /api/applications/[id].  Of *)
(* an application row the model keeps the ten fields completeness weighs.   *)

\* primary keys an insert can draw
AppIds == {"a1", "a2", "a3"}

FrameworkIds == {"fw1"}

\* the fields and weights of calculateCompleteness, in its order
fields ==
    << [field |-> "name", weight |-> 10],
       [field |-> "description", weight |-> 10],
       [field |-> "vendor", weight |-> 10],
       [field |-> "systemOwner", weight |-> 10],
       [field |-> "businessUnit", weight |-> 10],
       [field |-> "purpose", weight |-> 15],
       [field |-> "typicalUsers", weight |-> 10],
       [field |-> "sensitiveFunctions", weight |-> 10],
       [field |-> "accessRequestProcess", weight |-> 5],
       [field |-> "frameworkId", weight |-> 10] >>

\* String.prototype.trim on the strings the bodies carry
Trim(s) == IF s = " " THEN "" ELSE s

\* score after the first n fields of the loop
RECURSIVE ScoreUpTo(_, _)
ScoreUpTo(data, n) ==
    IF n = 0 THEN 0
    ELSE LET value == data[fields[n].field]
         IN  ScoreUpTo(data, n - 1)
                + (IF Truthy(value) /\ Trim(value) # "" THEN fields[n].weight ELSE 0)

calculateCompleteness(data) == ScoreUpTo(data, Len(fields))

\* a body with every optional field left out
BareBody(name) ==
    [ name |-> name, description |-> Undefined, vendor |-> Undefined,
      systemOwner |-> Undefined, businessUnit |-> Undefined, purpose |-> Undefined,
      typicalUsers |-> Undefined, sensitiveFunctions |-> Undefined,
      accessRequestProcess |-> Undefined, frameworkId |-> Undefined ]

\* bodies of POST /api/applications, and one with the empty name the schema refuses
ApplicationCreates ==
    [ name : {"App", " "},
      description : {Undefined, "x", " "},
      vendor : {Undefined}, systemOwner : {Undefined}, businessUnit : {Undefined},
      purpose : {Undefined, "x"},
      typicalUsers : {Undefined}, sensitiveFunctions : {Undefined},
      accessRequestProcess : {Undefined},
      frameworkId : {Undefined, "fw1"} ] \cup {BareBody("")}

\* createApplicationSchema: name min(1)
createApplicationSchemaOk(body) == body.name # ""

\* bodies of PUT /api/applications/[id], and one with the empty name the schema refuses
ApplicationUpdates ==
    [ name : {Undefined},
      description : {Undefined, Null, "x"},
      vendor : {Undefined}, systemOwner : {Undefined}, businessUnit : {Undefined},
      purpose : {Undefined, Null},
      typicalUsers : {Undefined}, sensitiveFunctions : {Undefined},
      accessRequestProcess : {Undefined, "x"},
      frameworkId : {Undefined, Null, "fw1"} ] \cup {BareBody("")}

\* updateApplicationSchema: name min(1) when present
updateApplicationSchemaOk(body) == body.name # ""

\* a column written from an optional field: undefined is stored as NULL
Column(v) == IF v = Undefined THEN Null ELSE v

\* "If frameworkId not provided, use default framework"
frameworkIdToUse(body) ==
    IF Truthy(body.frameworkId) THEN {body.frameworkId}
    ELSE IF \E fw \in FrameworkIds : frameworks[fw].exists /\ frameworks[fw].isDefault
         THEN {fw \in FrameworkIds : frameworks[fw].exists /\ frameworks[fw].isDefault}
         ELSE {Undefined}

\* the row POST inserts
NewApplication(body, frameworkId) ==
    [ exists |-> TRUE, isActive |-> TRUE,
      name |-> body.name,
      description |-> Column(body.description),
      vendor |-> Column(body.vendor),
      systemOwner |-> Column(body.systemOwner),
      businessUnit |-> Column(body.businessUnit),
      purpose |-> Column(body.purpose),
      typicalUsers |-> Column(body.typicalUsers),
      sensitiveFunctions |-> Column(body.sensitiveFunctions),
      accessRequestProcess |-> Column(body.accessRequestProcess),
      frameworkId |-> Column(frameworkId),
      profileCompleteness |-> calculateCompleteness(body) ]

ApplicationPOST(session, body) ==
    LET reject(code, error) ==
            /\ resp' = Reply("applicationPost", "none", code, error)
            /\ UNCHANGED applications
    IN  /\ now' = now + 1
        /\ UNCHANGED inflight
        /\ UNCHANGED <<reviews, records, employees, findings, frameworks, roles, sodConflicts, reports>>
        /\ IF session = NoSession THEN reject(401, "Unauthorized")
           ELSE IF ~MayMutate(session) THEN reject(403, "Forbidden")
           ELSE IF ~createApplicationSchemaOk(body) THEN reject(400, "Validation error")
           ELSE \E id \in AppIds, frameworkId \in frameworkIdToUse(body) :
                   /\ ~applications[id].exists
                   /\ applications' = [applications EXCEPT ![id] = NewApplication(body, frameworkId)]
                   /\ resp' = Reply("applicationPost", id, 201, "")

\* { ...existingApp, ...updateData }
mergedData(existingApp, body) ==
    [ f \in DOMAIN existingApp |->
        IF f \in DOMAIN body /\ body[f] # Undefined THEN body[f] ELSE existingApp[f] ]

ApplicationPUT(session, id, body) ==
    LET existingApp == applications[id]
        merged == mergedData(existingApp, body)
        reject(code, error) ==
            /\ resp' = Reply("applicationPut", id, code, error)
            /\ UNCHANGED applications
    IN  /\ now' = now + 1
        /\ UNCHANGED inflight
        /\ UNCHANGED <<reviews, records, employees, findings, frameworks, roles, sodConflicts, reports>>
        /\ IF session = NoSession THEN reject(401, "Unauthorized")
           ELSE IF ~MayMutate(session) THEN reject(403, "Forbidden")
           ELSE IF ~updateApplicationSchemaOk(body) THEN reject(400, "Validation error")
           ELSE IF ~existingApp.exists THEN reject(404, "Application not found")
           ELSE /\ applications' =
                      [applications EXCEPT ![id] =
                          [merged EXCEPT !.profileCompleteness = calculateCompleteness(merged)]]
                /\ resp' = Reply("applicationPut", id, 200, "")

\* no application yet; one framework, which is or is not the default
InitApp ==
    /\ reviews = [r \in ReviewIds |-> NewReview]
    /\ records = [r \in ReviewIds |-> <<>>]
    /\ employees = Roster
    /\ findings = << >>
    /\ applications = [a \in AppIds |-> NoRow]
    /\ \E isDefault \in BOOLEAN :
          frameworks = [fw \in FrameworkIds |-> [exists |-> TRUE, isDefault |-> isDefault]]
    /\ roles = << >>
    /\ sodConflicts = << >>
    /\ reports = << >>
    /\ now = NoTime
    /\ inflight = << >>
    /\ resp = Reply("none", "none", 0, "")

NextApp ==
    \E session \in Sessions :
        \/ \E body \in ApplicationCreates : now < MaxAppOps /\ ApplicationPOST(session, body)
        \/ \E id \in AppIds, body \in ApplicationUpdates :
              now < MaxAppOps /\ ApplicationPUT(session, id, body)

SpecApp == InitApp /\ [][NextApp]_vars

-----------------------------------------------------------------------------
(* Properties of the application profile *)

\* a stored value that is neither null nor blank
NonBlank(v) == v \notin {Null, Undefined, "", " "}

\* the weight of a tracked field, as section 4 of the specification lists them
Weight(f) ==
    CASE f = "purpose" -> 15
      [] f = "accessRequestProcess" -> 5
      [] OTHER -> 10

TrackedFields ==
    { "name", "description", "vendor", "systemOwner", "businessUnit", "purpose",
      "typicalUsers", "sensitiveFunctions", "accessRequestProcess", "frameworkId" }

RECURSIVE SumWeights(_)
SumWeights(S) ==
    IF S = {} THEN 0
    ELSE LET f == CHOOSE x \in S : TRUE IN Weight(f) + SumWeights(S \ {f})

\* C10: every stored application has a profileCompleteness equal to the summed
\* weights of the tracked fields it holds non-null and non-blank, within 0..100.
C10_CompletenessMatchesStoredFields ==
    \A a \in AppIds :
        applications[a].exists
        => ( /\ applications[a].profileCompleteness =
                    SumWeights({f \in TrackedFields : NonBlank(applications[a][f])})
             /\ applications[a].profileCompleteness \in 0..100 )

-----------------------------------------------------------------------------
(* Reports: POST /api/reports inserts the metadata row of a report *)

ReportTypes == {"executive_summary", "evidence_package"}

\* bodies of POST /api/reports: for no cycle, for a cycle, for a cycle that does
\* not exist, and one with the empty name the schema refuses
ReportCreates ==
    [ reviewCycleId : {Undefined, "r1", "r9"}, reportType : ReportTypes,
      name : {"Q1 report"}, format : {"PDF"} ]
        \cup { [ reviewCycleId |-> Undefined, reportType |-> "executive_summary",
                 name |-> "", format |-> "PDF" ] }

\* createReportSchema: name min(1)
createReportSchemaOk(body) == body.name # "" /\ body.reportType \in ReportTypes

NewReport(body, userId, t) ==
    [ reviewCycleId |-> Column(body.reviewCycleId), reportType |-> body.reportType,
      name |-> body.name, format |-> body.format,
      generatedById |-> userId, generatedAt |-> t ]

\* the handler asks for a session and, unlike the other mutating handlers, for no role
ReportPOST(session, body) ==
    LET reject(code, error) ==
            /\ resp' = [ op |-> "reportPost", target |-> "none", code |-> code,
                         error |-> error, user |-> session.id ]
            /\ UNCHANGED reports
    IN  /\ now' = now + 1
        /\ UNCHANGED inflight
        /\ UNCHANGED <<reviews, records, employees, findings, applications, frameworks,
                       roles, sodConflicts>>
        /\ IF session = NoSession THEN reject(401, "Unauthorized")
           ELSE IF ~createReportSchemaOk(body) THEN reject(400, "Validation error")
           ELSE IF Truthy(body.reviewCycleId)
                   /\ ~(body.reviewCycleId \in DOMAIN reviews /\ reviews[body.reviewCycleId].exists)
                THEN reject(400, "Review cycle not found")
           ELSE /\ reports' = Append(reports, NewReport(body, session.id, now + 1))
                /\ resp' = [ op |-> "reportPost", target |-> "none", code |-> 201,
                             error |-> "", user |-> session.id ]

NextReport ==
    \E session \in Sessions, body \in ReportCreates :
        now < MaxReportOps /\ ReportPOST(session, body)

SpecReport == InitReview /\ [][NextReport]_vars

\* the role of the user a response went to
RoleOf(userId) ==
    IF \E u \in Users : u.id = userId
    THEN (CHOOSE u \in Users : u.id = userId).role
    ELSE "<none>"

\* C11: an operation asked for by a session whose role is not ADMINISTRATOR, ISO
\* or ANALYST is refused and changes no table; stated here for report creation.
C11_NonWritersChangeNothing ==
    [][(resp'.op = "reportPost"
            /\ RoleOf(resp'.user) \notin {"ADMINISTRATOR", "ISO", "ANALYST"})
       => ( /\ resp'.code \in {400, 401, 403}
            /\ reports' = reports
            /\ UNCHANGED <<reviews, records, employees, findings, applications,
                           frameworks, roles, sodConflicts>> )]_vars

-----------------------------------------------------------------------------
(* Clear and delete on cycles that hold data: each cycle holds one access    *)
(* record, the first cycle two findings and the second one; the first cycle  *)
(* is in any status, one of its findings may be tied to its record, and a    *)
(* report may name it.                                                       *)

\* a stored access record
LoadedRecord(username) ==
    [ username |-> username, email |-> Undefined, employeeId |-> Null,
      roles |-> <<>>, lastLoginAt |-> NoTime, hasPrivilegedAccess |-> FALSE,
      hasSodConflict |-> FALSE, isDormant |-> FALSE, reviewStatus |-> "PENDING" ]

\* a cycle that went through its first import at clock value 1 and, if it is
\* COMPLETED, was completed at clock value 3
LoadedReview(status) ==
    [NewReview EXCEPT !.status = status, !.startedAt = 1, !.snapshotDate = 1,
                      !.completedAt = IF status = "COMPLETED" THEN 3 ELSE NoTime]

InitLoaded ==
    /\ \E s1 \in ReviewStatuses, s2 \in {"DATA_COLLECTION", "IN_REVIEW"} :
          reviews = [r \in ReviewIds |-> LoadedReview(IF r = "r1" THEN s1 ELSE s2)]
    /\ records = [r \in ReviewIds |-> <<LoadedRecord("jdoe")>>]
    /\ employees = Roster
    /\ \E tied \in {Null, "jdoe"} :
          findings = [ f \in FindingIds |->
                         CASE f = "f1" -> [NewFinding("r1", "HIGH") EXCEPT
                                              !.userAccessRecordId = tied]
                           [] f = "f2" -> NewFinding("r1", "LOW")
                           [] f = "f3" -> NewFinding("r2", "CRITICAL") ]
    /\ applications = << >>
    /\ frameworks = << >>
    /\ roles = << >>
    /\ sodConflicts = << >>
    /\ reports \in { <<>>,
                     << [ reviewCycleId |-> "r1", reportType |-> "executive_summary",
                          name |-> "Q1 report", format |-> "PDF",
                          generatedById |-> "u-admin", generatedAt |-> 2 ] >> }
    /\ now = 4
    /\ inflight = << >>
    /\ resp = Reply("none", "none", 0, "")

NextLoaded ==
    \E session \in Sessions, id \in ReviewIds :
        \/ now < MaxLoadedTime /\ ClearDELETE(session, id)
        \/ now < MaxLoadedTime /\ ReviewDELETE(session, id)

SpecLoaded == InitLoaded /\ [][NextLoaded]_vars

\* payloads the schema accepts, of at most one record, and the two it refuses
SchemaBodies == [records : SeqsUpTo(ImportRecs, 1)] \cup {InvalidBody, InvalidEmailBody}

NextSchema ==
    \E session \in Sessions, id \in ReviewIds, body \in SchemaBodies :
        now < MaxSchemaTime /\ ImportPOST(session, id, body)

\* imports into cycles that hold data, in every status
SpecSchema == InitLoaded /\ [][NextSchema]_vars

-----------------------------------------------------------------------------
(* POST /api/applications/[id]/sod-conflicts,                                *)
(* PUT and DELETE /api/applications/[id]/sod-conflicts/[conflictId]          *)

\* rows of application_roles: three roles of application a1, two of a2; names are
\* unique within an application whatever their case, as the role handlers keep them
RoleCatalog ==
    << [exists |-> TRUE, id |-> "role1", applicationId |-> "a1", name |-> "Approver",
        isPrivileged |-> TRUE],
       [exists |-> TRUE, id |-> "role2", applicationId |-> "a1", name |-> "requester",
        isPrivileged |-> FALSE],
       [exists |-> TRUE, id |-> "role3", applicationId |-> "a1", name |-> "Auditor",
        isPrivileged |-> FALSE],
       [exists |-> TRUE, id |-> "role4", applicationId |-> "a2", name |-> "approver",
        isPrivileged |-> FALSE],
       [exists |-> TRUE, id |-> "role5", applicationId |-> "a2", name |-> "Requester",
        isPrivileged |-> FALSE] >>

\* the ids a new conflict row draws its uuid from
ConflictIds == {"c1", "c2", "c3"}

\* z.string().uuid(): the role ids of the catalog are uuids
IsUuid(s) == s # "not-a-uuid"

\* request bodies of a create: roles of a1, a role of a2, and an id that is no uuid
SodConflictCreates ==
    [ role1Id : {"role1", "role2", "role4"}, role2Id : {"role1", "role2", "role3"},
      conflictReason : {Undefined}, severity : {Undefined} ]
        \cup { [ role1Id |-> "not-a-uuid", role2Id |-> "role1",
                 conflictReason |-> Undefined, severity |-> Undefined ] }

createSodConflictSchemaOk(body) ==
    /\ IsUuid(body.role1Id)
    /\ IsUuid(body.role2Id)
    /\ body.severity \in Severities \cup {Undefined}

\* request bodies of an update
SodConflictUpdates ==
    [ conflictReason : {Undefined}, severity : {Undefined, "LOW"} ]
        \cup { [conflictReason |-> Undefined, severity |-> "SEVERE"] }

updateSodConflictSchemaOk(body) == body.severity \in Severities \cup {Undefined}

\* findFirst on application_roles by id and applicationId
RoleOfApplication(roleId, id) ==
    \E i \in 1..Len(roles) : roles[i].id = roleId /\ roles[i].applicationId = id

\* the duplicate test looking for the pair in the order of the request only
ConflictExistsInOrder(id, body) ==
    \E i \in 1..Len(sodConflicts) :
        /\ sodConflicts[i].applicationId = id
        /\ sodConflicts[i].role1Id = body.role1Id /\ sodConflicts[i].role2Id = body.role2Id

\* "Check if conflict already exists (in either direction)"
ConflictExists(id, body) ==
    \E i \in 1..Len(sodConflicts) :
        /\ sodConflicts[i].applicationId = id
        /\ \/ sodConflicts[i].role1Id = body.role1Id /\ sodConflicts[i].role2Id = body.role2Id
           \/ sodConflicts[i].role1Id = body.role2Id /\ sodConflicts[i].role2Id = body.role1Id

\* the values of one insert into sod_conflicts; severity defaults to HIGH
NewSodConflict(conflictId, id, body) ==
    [ id |-> conflictId, applicationId |-> id,
      role1Id |-> body.role1Id, role2Id |-> body.role2Id,
      conflictReason |-> Column(body.conflictReason),
      severity |-> IF body.severity = Undefined THEN "HIGH" ELSE body.severity ]

SodUnchanged ==
    UNCHANGED <<reviews, records, employees, findings, applications, frameworks, roles, reports>>

SodConflictPOST(session, id, body) ==
    LET reject(code, error) ==
            /\ resp' = [ op |-> "sodPost", target |-> id, code |-> code, error |-> error,
                         request |-> body ]
            /\ UNCHANGED sodConflicts
    IN  /\ now' = now + 1
        /\ UNCHANGED inflight
        /\ SodUnchanged
        /\ IF session = NoSession THEN reject(401, "Unauthorized")
           ELSE IF ~MayMutate(session) THEN reject(403, "Forbidden")
           ELSE IF ~createSodConflictSchemaOk(body) THEN reject(400, "Validation error")
           ELSE IF ~applications[id].exists THEN reject(404, "Application not found")
           ELSE IF ~(RoleOfApplication(body.role1Id, id) /\ RoleOfApplication(body.role2Id, id))
                THEN reject(400, "One or both roles not found")
           ELSE IF body.role1Id = body.role2Id
                THEN reject(400, "Cannot create conflict between the same role")
           ELSE IF ConflictExists(id, body)
                THEN reject(400, "A conflict between these roles already exists")
           ELSE \E conflictId \in ConflictIds \ { sodConflicts[i].id : i \in 1..Len(sodConflicts) } :
                   /\ sodConflicts' = Append(sodConflicts, NewSodConflict(conflictId, id, body))
                   /\ resp' = [ op |-> "sodPost", target |-> id, code |-> 201, error |-> "",
                                request |-> body ]

\* findFirst on sod_conflicts by id and applicationId
ConflictOfApplication(conflictId, id) ==
    \E i \in 1..Len(sodConflicts) :
        sodConflicts[i].id = conflictId /\ sodConflicts[i].applicationId = id

\* updateData: only conflictReason and severity are ever written
SodConflictUpdate(row, body) ==
    [row EXCEPT !.conflictReason = IF body.conflictReason # Undefined
                                   THEN body.conflictReason ELSE @,
                !.severity = IF body.severity # Undefined THEN body.severity ELSE @]

SodConflictPUT(session, id, conflictId, body) ==
    LET reject(code, error) ==
            /\ resp' = Reply("sodPut", conflictId, code, error)
            /\ UNCHANGED sodConflicts
    IN  /\ now' = now + 1
        /\ UNCHANGED inflight
        /\ SodUnchanged
        /\ IF session = NoSession THEN reject(401, "Unauthorized")
           ELSE IF ~MayMutate(session) THEN reject(403, "Forbidden")
           ELSE IF ~updateSodConflictSchemaOk(body) THEN reject(400, "Validation error")
           ELSE IF ~ConflictOfApplication(conflictId, id)
                THEN reject(404, "SoD conflict not found")
           ELSE /\ sodConflicts' =
                      [ i \in 1..Len(sodConflicts) |->
                          IF sodConflicts[i].id = conflictId
                          THEN SodConflictUpdate(sodConflicts[i], body)
                          ELSE sodConflicts[i] ]
                /\ resp' = Reply("sodPut", conflictId, 200, "")

SodConflictDELETE(session, id, conflictId) ==
    LET reject(code, error) ==
            /\ resp' = Reply("sodDelete", conflictId, code, error)
            /\ UNCHANGED sodConflicts
    IN  /\ now' = now + 1
        /\ UNCHANGED inflight
        /\ SodUnchanged
        /\ IF session = NoSession THEN reject(401, "Unauthorized")
           ELSE IF ~MayClear(session) THEN reject(403, "Forbidden")
           ELSE IF ~ConflictOfApplication(conflictId, id)
                THEN reject(404, "SoD conflict not found")
           ELSE /\ sodConflicts' =
                      SelectSeq(sodConflicts, LAMBDA row : row.id # conflictId)
                /\ resp' = Reply("sodDelete", conflictId, 200, "")

\* two applications with their roles and no conflict rule yet
InitConflict ==
    /\ reviews = [r \in ReviewIds |-> NewReview]
    /\ records = [r \in ReviewIds |-> <<>>]
    /\ employees = Roster
    /\ findings = << >>
    /\ applications = [ a \in AppIds |->
                          IF a = "a3" THEN NoRow ELSE NewApplication(BareBody("Payroll"), "fw1") ]
    /\ frameworks = [fw \in FrameworkIds |-> [exists |-> TRUE, isDefault |-> TRUE]]
    /\ roles = RoleCatalog
    /\ sodConflicts = << >>
    /\ reports = << >>
    /\ now = NoTime
    /\ inflight = << >>
    /\ resp = Reply("none", "none", 0, "")

NextConflict ==
    \E session \in Sessions, id \in AppIds :
        \/ \E body \in SodConflictCreates :
              now < MaxConflictOps /\ SodConflictPOST(session, id, body)
        \/ \E conflictId \in ConflictIds, body \in SodConflictUpdates :
              now < MaxConflictOps /\ SodConflictPUT(session, id, conflictId, body)
        \/ \E conflictId \in ConflictIds :
              now < MaxConflictOps /\ SodConflictDELETE(session, id, conflictId)

SpecConflict == InitConflict /\ [][NextConflict]_vars

-----------------------------------------------------------------------------
(* Import against a role catalog and SoD rules: cycle r1 reviews application *)
(* a1 and cycle r2 application a2; the rules in force are drawn.             *)

\* a conflict row with the columns the import reads
SodRule(conflictId, id, role1Id, role2Id) ==
    NewSodConflict(conflictId, id,
                   [ role1Id |-> role1Id, role2Id |-> role2Id,
                     conflictReason |-> Undefined, severity |-> Undefined ])

\* the rules in force: none, requester/approver of a1, approver/requester of a2,
\* both, and approver/auditor of a1
SodRuleSets ==
    { << >>,
      << SodRule("c1", "a1", "role2", "role1") >>,
      << SodRule("c3", "a2", "role4", "role5") >>,
      << SodRule("c1", "a1", "role2", "role1"), SodRule("c3", "a2", "role4", "role5") >>,
      << SodRule("c2", "a1", "role1", "role3") >> }

\* role names as an export spells them: two catalog names in another case and one
\* name no catalog holds
RoleNames == {"approver", "REQUESTER", "Ghost"}

\* payloads of one record carrying a list of role names
SodBodies ==
    { [ records |-> << [ username |-> "jdoe", email |-> Undefined, roles |-> userRoles,
                         lastLoginAt |-> Undefined ] >> ] :
        userRoles \in SeqsUpTo(RoleNames, MaxRoleNames) }

InitSod ==
    /\ reviews = [ r \in ReviewIds |->
                     [NewReview EXCEPT !.applicationId = IF r = "r1" THEN "a1" ELSE "a2"] ]
    /\ records = [r \in ReviewIds |-> <<>>]
    /\ employees = Roster
    /\ findings = << >>
    /\ applications = [ a \in AppIds |->
                          IF a = "a3" THEN NoRow ELSE NewApplication(BareBody("Payroll"), "fw1") ]
    /\ frameworks = [fw \in FrameworkIds |-> [exists |-> TRUE, isDefault |-> TRUE]]
    /\ roles = RoleCatalog
    /\ sodConflicts \in SodRuleSets
    /\ reports = << >>
    /\ now = NoTime
    /\ inflight = << >>
    /\ resp = Reply("none", "none", 0, "")

\* the callers of these imports: an analyst, and a caller who is not signed in
SodSessions == { session \in Sessions : session = NoSession \/ session.role = "ANALYST" }

NextSod ==
    \E session \in SodSessions, id \in ReviewIds, body \in SodBodies :
        now < MaxSodOps /\ ImportPOST(session, id, body)

SpecSod == InitSod /\ [][NextSod]_vars

-----------------------------------------------------------------------------
(* Import around the ninetieth day after 2024-01-01: the clock starts a day  *)
(* before it, and the framework of the cycle holds a drawn                   *)
(* thresholds.dormantDays.                                                   *)

\* Date.now() before the first import: 2024-03-30T00:00Z, 89 days after 2024-01-01
ImportClock == 179

\* payloads of one record with a last login: a date, none, or an empty string
DormantBodies ==
    { [ records |-> << [ username |-> "jdoe", email |-> Undefined, roles |-> <<>>,
                         lastLoginAt |-> lastLoginAt ] >> ] :
        lastLoginAt \in DateStrings \cup {Undefined, "", "not-a-date"} }

InitDormant ==
    /\ reviews = [r \in ReviewIds |-> NewReview]
    /\ records = [r \in ReviewIds |-> <<>>]
    /\ employees = Roster
    /\ findings = << >>
    /\ applications = << >>
    /\ \E dormantDays \in {30, 90, 180} :
          frameworks = [ fw \in FrameworkIds |->
                           [exists |-> TRUE, isDefault |-> TRUE, dormantDays |-> dormantDays] ]
    /\ roles = << >>
    /\ sodConflicts = << >>
    /\ reports = << >>
    /\ now = ImportClock
    /\ inflight = << >>
    /\ resp = Reply("none", "none", 0, "")

NextDormant ==
    \E session \in Sessions, body \in DormantBodies :
        now < ImportClock + MaxDormantOps /\ ImportPOST(session, "r1", body)

SpecDormant == InitDormant /\ [][NextDormant]_vars

-----------------------------------------------------------------------------
(* POST /api/frameworks, PUT /api/frameworks/[id] *)

\* the ids a new framework row draws its uuid from
FrameworkSlots == {"fw1", "fw2", "fw3"}

\* request bodies of a create: isDefault left out, true or false, and a body with
\* an empty name
FrameworkCreates ==
    [name : {"SOX"}] \cup [name : {"SOX"}, isDefault : BOOLEAN]
        \cup { [name |-> "", isDefault |-> TRUE] }

\* validatedData.isDefault !== undefined
IsDefaultSent(body) == "isDefault" \in DOMAIN body

\* validatedData.isDefault as a condition: sent and true
IsDefaultTruthy(body) == IsDefaultSent(body) /\ body.isDefault

createFrameworkSchemaOk(body) == body.name # ""

\* request bodies of an update
FrameworkUpdates ==
    [name : {Undefined}] \cup [name : {Undefined}, isDefault : BOOLEAN]
        \cup { [name |-> "", isDefault |-> TRUE] }

updateFrameworkSchemaOk(body) == body.name # ""

\* the unset step left out
KeepDefaults(table) == table

\* "If this is being set as default, unset other defaults"
UnsetDefaults(table) ==
    [ fw \in DOMAIN table |->
        IF table[fw].exists /\ table[fw].isDefault
        THEN [table[fw] EXCEPT !.isDefault = FALSE]
        ELSE table[fw] ]

\* the values of one insert into frameworks: isDefault || false
NewFramework(body) ==
    [exists |-> TRUE, name |-> body.name, isDefault |-> IsDefaultTruthy(body)]

\* the role check of the framework handlers
MayManageFrameworks(session) == session.role \in {"ADMINISTRATOR", "ISO"}

FrameworkUnchanged ==
    UNCHANGED <<reviews, records, employees, findings, applications, roles,
                sodConflicts, reports>>

FrameworkPOST(session, body) ==
    LET reject(code, error) ==
            /\ resp' = [ op |-> "frameworkPost", target |-> "none", code |-> code,
                         error |-> error, request |-> body ]
            /\ UNCHANGED frameworks
    IN  /\ now' = now + 1
        /\ UNCHANGED inflight
        /\ FrameworkUnchanged
        /\ IF session = NoSession THEN reject(401, "Unauthorized")
           ELSE IF ~MayManageFrameworks(session) THEN reject(403, "Forbidden")
           ELSE IF ~createFrameworkSchemaOk(body) THEN reject(400, "Validation error")
           ELSE \E id \in { fw \in FrameworkSlots : ~frameworks[fw].exists } :
                   LET unset == IF IsDefaultTruthy(body) THEN UnsetDefaults(frameworks)
                                ELSE frameworks
                   IN  /\ frameworks' = [unset EXCEPT ![id] = NewFramework(body)]
                       /\ resp' = [ op |-> "frameworkPost", target |-> id, code |-> 201,
                                    error |-> "", request |-> body ]

\* updateData applied to the row: only the fields the body carries are written
FrameworkUpdate(row, body) ==
    [row EXCEPT !.name = IF body.name # Undefined THEN body.name ELSE @,
                !.isDefault = IF IsDefaultSent(body) THEN body.isDefault ELSE @]

FrameworkPUT(session, id, body) ==
    LET reject(code, error) ==
            /\ resp' = [ op |-> "frameworkPut", target |-> id, code |-> code,
                         error |-> error, request |-> body ]
            /\ UNCHANGED frameworks
    IN  /\ now' = now + 1
        /\ UNCHANGED inflight
        /\ FrameworkUnchanged
        /\ IF session = NoSession THEN reject(401, "Unauthorized")
           ELSE IF ~MayManageFrameworks(session) THEN reject(403, "Forbidden")
           ELSE IF ~updateFrameworkSchemaOk(body) THEN reject(400, "Validation error")
           ELSE IF ~frameworks[id].exists THEN reject(404, "Framework not found")
           ELSE LET unset == IF IsDefaultTruthy(body) THEN UnsetDefaults(frameworks)
                             ELSE frameworks
                IN  /\ frameworks' = [unset EXCEPT ![id] = FrameworkUpdate(unset[id], body)]
                    /\ resp' = [ op |-> "frameworkPut", target |-> id, code |-> 200,
                                 error |-> "", request |-> body ]

\* the seeded framework, default as seeded or no longer
InitFramework ==
    /\ reviews = [r \in ReviewIds |-> NewReview]
    /\ records = [r \in ReviewIds |-> <<>>]
    /\ employees = Roster
    /\ findings = << >>
    /\ applications = << >>
    /\ \E isDefault \in BOOLEAN :
          frameworks = [ fw \in FrameworkSlots |->
                           IF fw = "fw1"
                           THEN [ exists |-> TRUE, name |-> "Standard Review Framework",
                                  isDefault |-> isDefault ]
                           ELSE NoRow ]
    /\ roles = << >>
    /\ sodConflicts = << >>
    /\ reports = << >>
    /\ now = NoTime
    /\ inflight = << >>
    /\ resp = Reply("none", "none", 0, "")

NextFramework ==
    \E session \in Sessions :
        \/ \E body \in FrameworkCreates :
              now < MaxFrameworkOps /\ FrameworkPOST(session, body)
        \/ \E id \in FrameworkSlots, body \in FrameworkUpdates :
              now < MaxFrameworkOps /\ FrameworkPUT(session, id, body)

SpecFramework == InitFramework /\ [][NextFramework]_vars

-----------------------------------------------------------------------------
(* Import of payloads with more failing records than errorDetails returns *)

\* usernames of an export, one per line
ExportUsers ==
    << "u01", "u02", "u03", "u04", "u05", "u06", "u07", "u08", "u09", "u10",
       "u11", "u12", "u13", "u14" >>

\* a payload whose records at the given positions carry a lastLoginAt that is no date
LargeBody(failing) ==
    [ records |->
        [ i \in 1..MaxLargeBatch |->
            [ username |-> ExportUsers[i], email |-> Undefined, roles |-> <<>>,
              lastLoginAt |-> IF i \in failing THEN "not-a-date" ELSE Undefined ] ] ]

\* the failing positions form a run, or everything but a run
LargeBodies ==
    { LargeBody(a..b) : a \in 1..MaxLargeBatch, b \in 0..MaxLargeBatch }
        \cup { LargeBody((1..MaxLargeBatch) \ (a..b)) : a, b \in 1..MaxLargeBatch }

NextLarge ==
    \E session \in Sessions, body \in LargeBodies :
        now < MaxLargeOps /\ ImportPOST(session, "r1", body)

SpecLarge == InitReview /\ [][NextLarge]_vars

-----------------------------------------------------------------------------
(* POST /api/applications/[id]/roles,                                        *)
(* PUT and DELETE /api/applications/[id]/roles/[roleId]                      *)

\* the ids a new role row draws its uuid from
NewRoleIds == {"role6", "role7"}

\* request bodies of a create: a name the catalog of a1 holds in another case, a
\* new name, with isPrivileged left out or true, and a body with an empty name
RoleCreates ==
    [name : {"approver", "Clerk"}] \cup [name : {"Clerk"}, isPrivileged : {TRUE}]
        \cup { [name |-> ""] }

createRoleSchemaOk(body) == body.name # ""

\* request bodies of an update
RoleUpdates ==
    [name : {Undefined, "Clerk", "requester"}] \cup [name : {Undefined}, isPrivileged : {FALSE}]
        \cup { [name |-> ""] }

updateRoleSchemaOk(body) == body.name # ""

\* existingRoles.some(...): a role of the application other than roleId has the
\* name, case aside
RoleNameTaken(id, name, roleId) ==
    \E i \in 1..Len(roles) :
        /\ roles[i].applicationId = id
        /\ roles[i].id # roleId
        /\ ToLower(roles[i].name) = ToLower(name)

\* the values of one insert into application_roles; isPrivileged defaults to false
NewRole(roleId, id, body) ==
    [ exists |-> TRUE, id |-> roleId, applicationId |-> id, name |-> body.name,
      isPrivileged |-> IF "isPrivileged" \in DOMAIN body THEN body.isPrivileged ELSE FALSE ]

\* stored access records tagged again from a role catalog
RetaggedRecords(catalog) ==
    [ r \in DOMAIN records |->
        [ i \in 1..Len(records[r]) |->
            [ records[r][i] EXCEPT !.hasPrivilegedAccess =
                hasPrivilegedAccess(records[r][i].roles,
                    roleNameMap(OfApplication(catalog, reviews[r].applicationId))) ] ] ]

\* the role handlers tagging the stored access records again
RoleRetagsRecords ==
    /\ records' = RetaggedRecords(roles')
    /\ UNCHANGED <<reviews, employees, findings, applications, frameworks, reports>>

\* what the role handlers leave alone
RoleUnchanged ==
    UNCHANGED <<reviews, records, employees, findings, applications, frameworks, reports>>

RolePOST(session, id, body) ==
    LET reject(code, error) ==
            /\ resp' = Reply("rolePost", id, code, error)
            /\ UNCHANGED roles
    IN  /\ now' = now + 1
        /\ UNCHANGED inflight
        /\ UNCHANGED sodConflicts
        /\ IF session = NoSession THEN reject(401, "Unauthorized")
           ELSE IF ~MayMutate(session) THEN reject(403, "Forbidden")
           ELSE IF ~createRoleSchemaOk(body) THEN reject(400, "Validation error")
           ELSE IF ~applications[id].exists THEN reject(404, "Application not found")
           ELSE IF RoleNameTaken(id, body.name, Null)
                THEN reject(400, "A role with this name already exists")
           ELSE \E roleId \in NewRoleIds \ { roles[i].id : i \in 1..Len(roles) } :
                   /\ roles' = Append(roles, NewRole(roleId, id, body))
                   /\ resp' = Reply("rolePost", roleId, 201, "")
        /\ RoleUnchanged

\* findFirst on application_roles by id and applicationId
ExistingRole(roleId, id) ==
    SelectSeq(roles, LAMBDA row : row.id = roleId /\ row.applicationId = id)

\* updateData applied to the row
RoleUpdate(row, body) ==
    [row EXCEPT !.name = IF body.name # Undefined THEN body.name ELSE @,
                !.isPrivileged = IF "isPrivileged" \in DOMAIN body
                                 THEN body.isPrivileged ELSE @]

RolePUT(session, id, roleId, body) ==
    LET existingRole == ExistingRole(roleId, id)
        reject(code, error) ==
            /\ resp' = Reply("rolePut", roleId, code, error)
            /\ UNCHANGED roles
    IN  /\ now' = now + 1
        /\ UNCHANGED inflight
        /\ UNCHANGED sodConflicts
        /\ IF session = NoSession THEN reject(401, "Unauthorized")
           ELSE IF ~MayMutate(session) THEN reject(403, "Forbidden")
           ELSE IF ~updateRoleSchemaOk(body) THEN reject(400, "Validation error")
           ELSE IF existingRole = << >> THEN reject(404, "Role not found")
           ELSE IF /\ Truthy(body.name)
                   /\ body.name # existingRole[1].name
                   /\ RoleNameTaken(id, body.name, roleId)
                THEN reject(400, "A role with this name already exists")
           ELSE /\ roles' = [ i \in 1..Len(roles) |->
                                IF roles[i].id = roleId THEN RoleUpdate(roles[i], body)
                                ELSE roles[i] ]
                /\ resp' = Reply("rolePut", roleId, 200, "")
        /\ RoleUnchanged

\* "Check if role is used in any SoD conflicts"
conflictCount(roleId) ==
    Cardinality({ i \in 1..Len(sodConflicts) :
        sodConflicts[i].role1Id = roleId \/ sodConflicts[i].role2Id = roleId })

RoleDELETE(session, id, roleId) ==
    LET reject(code, error) ==
            /\ resp' = Reply("roleDelete", roleId, code, error)
            /\ UNCHANGED roles
    IN  /\ now' = now + 1
        /\ UNCHANGED inflight
        /\ UNCHANGED sodConflicts
        /\ IF session = NoSession THEN reject(401, "Unauthorized")
           ELSE IF ~MayClear(session) THEN reject(403, "Forbidden")
           ELSE IF ExistingRole(roleId, id) = << >> THEN reject(404, "Role not found")
           ELSE IF conflictCount(roleId) > 0
                THEN reject(400, "Cannot delete role that is used in SoD conflict rules")
           ELSE /\ roles' = SelectSeq(roles, LAMBDA row : row.id # roleId)
                /\ resp' = Reply("roleDelete", roleId, 200, "")
        /\ RoleUnchanged

-----------------------------------------------------------------------------
(* Catalog and finding requests after an import: each cycle holds the record *)
(* an import stored under the catalog and the rules of Init.                 *)

\* the payload imported before: jdoe holding approver and REQUESTER
SnapshotBody ==
    [ records |-> << [ username |-> "jdoe", email |-> "JDoe@Co.com",
                       roles |-> <<"approver", "REQUESTER">>,
                       lastLoginAt |-> "2023-12-31" ] >> ]

\* the rows that import stored for a cycle of the application
SnapshotRecords(applicationId, rules) ==
    ImportLoop(SnapshotBody.records, 1,
               [ employeeMap |-> employeeMap(Roster),
                 roleNameMap |-> roleNameMap(OfApplication(RoleCatalog, applicationId)),
                 sodConflicts |-> OfApplication(rules, applicationId),
                 now |-> 1 ]).importedRecords

InitSnapshot ==
    /\ \E rules \in SodRuleSets :
          /\ sodConflicts = rules
          /\ records = [ r \in ReviewIds |->
                           SnapshotRecords(IF r = "r1" THEN "a1" ELSE "a2", rules) ]
    /\ reviews = [ r \in ReviewIds |->
                     [NewReview EXCEPT !.applicationId = IF r = "r1" THEN "a1" ELSE "a2",
                                       !.status = "DATA_COLLECTION",
                                       !.startedAt = 1, !.snapshotDate = 1] ]
    /\ employees = Roster
    /\ findings = [ f \in FindingIds |->
                      CASE f = "f1" -> [NewFinding("r1", "HIGH") EXCEPT
                                           !.userAccessRecordId = "jdoe"]
                        [] f = "f2" -> NewFinding("r1", "LOW")
                        [] f = "f3" -> NewFinding("r2", "CRITICAL") ]
    /\ applications = [ a \in AppIds |->
                          IF a = "a3" THEN NoRow ELSE NewApplication(BareBody("Payroll"), "fw1") ]
    /\ frameworks = [fw \in FrameworkIds |-> [exists |-> TRUE, isDefault |-> TRUE]]
    /\ roles = RoleCatalog
    /\ reports = << >>
    /\ now = 1
    /\ inflight = << >>
    /\ resp = Reply("none", "none", 0, "")

\* requests on the catalog and the rules of application a1 and on the finding
\* tied to the record of jdoe
NextSnapshot ==
    \E session \in Sessions :
        \/ \E body \in RoleCreates :
              now < MaxSnapshotTime /\ RolePOST(session, "a1", body)
        \/ \E roleId \in {"role1", "role4"}, body \in RoleUpdates :
              now < MaxSnapshotTime /\ RolePUT(session, "a1", roleId, body)
        \/ \E roleId \in {"role1", "role3"} :
              now < MaxSnapshotTime /\ RoleDELETE(session, "a1", roleId)
        \/ \E body \in SodConflictCreates :
              now < MaxSnapshotTime /\ SodConflictPOST(session, "a1", body)
        \/ \E body \in SodConflictUpdates :
              now < MaxSnapshotTime /\ SodConflictPUT(session, "a1", "c1", body)
        \/ now < MaxSnapshotTime /\ SodConflictDELETE(session, "a1", "c1")
        \/ \E body \in { b \in FindingUpdates : b.status = Undefined } :
              now < MaxSnapshotTime /\ FindingPUT(session, "f1", body)

SpecSnapshot == InitSnapshot /\ [][NextSnapshot]_vars

-----------------------------------------------------------------------------
(* Properties of import, clear and delete on the review-cycle lifecycle *)

\* C12: an import accepted for a cycle in DRAFT leaves the cycle in
\* DATA_COLLECTION with startedAt and snapshotDate equal to the time of the
\* import, whatever the record list was.
C12_ImportFromDraftStartsCollection ==
    [][(resp'.op = "import" /\ resp'.code = 200
            /\ reviews[resp'.target].status = "DRAFT")
       => ( /\ reviews'[resp'.target].status = "DATA_COLLECTION"
            /\ reviews'[resp'.target].startedAt = now'
            /\ reviews'[resp'.target].snapshotDate = now'
            /\ now' # NoTime )]_vars

\* C12 witness: an import none of whose records persisted moved the cycle on
C12_Witness ==
    /\ resp.op = "import"
    /\ resp.code = 200
    /\ Len(resp.request) > 0
    /\ resp.data.imported = 0
    /\ resp.data.errors = Len(resp.request)
    /\ reviews[resp.target].status = "DATA_COLLECTION"
    /\ reviews[resp.target].startedAt = now
    /\ reviews[resp.target].snapshotDate = now

\* C13: a clear succeeds only on a cycle in DRAFT or DATA_COLLECTION; after a
\* successful clear the cycle has no access record, is in DRAFT and has startedAt
\* and snapshotDate null, and the records of every other cycle are as before; a
\* clear that did not succeed changes neither records nor cycles.
C13_ClearOnlyDuringCollection ==
    [][(resp'.op = "clear")
       => IF resp'.code = 200
          THEN /\ reviews[resp'.target].status \in {"DRAFT", "DATA_COLLECTION"}
               /\ records'[resp'.target] = <<>>
               /\ reviews'[resp'.target].status = "DRAFT"
               /\ reviews'[resp'.target].startedAt = NoTime
               /\ reviews'[resp'.target].snapshotDate = NoTime
               /\ \A o \in ReviewIds \ {resp'.target} :
                     records'[o] = records[o] /\ reviews'[o] = reviews[o]
          ELSE records' = records /\ reviews' = reviews]_vars

\* C13 witness: the first cycle was cleared and reset while the second cycle
\* still holds its record
C13_Witness ==
    /\ resp.op = "clear"
    /\ resp.code = 200
    /\ resp.target = "r1"
    /\ records["r1"] = <<>>
    /\ reviews["r1"].status = "DRAFT"
    /\ reviews["r1"].startedAt = NoTime
    /\ Len(records["r2"]) = 1

\* no finding of the cycle is left
NoFindingOf(table, id) ==
    \A f \in DOMAIN table : ~(table[f].exists /\ table[f].reviewCycleId = id)

\* C14: a delete removes the cycle, with its access records and findings, only
\* when the cycle was in DRAFT; on a cycle in any other status a delete that is
\* carried out leaves cycle, records and findings in place and sets the status
\* to ARCHIVED.
C14_DeleteOnlyDraftElseArchive ==
    [][(resp'.op = "reviewDelete" /\ reviews[resp'.target].exists)
       => LET id == resp'.target
          IN  /\ ~reviews'[id].exists
                    => ( /\ reviews[id].status = "DRAFT"
                         /\ records'[id] = <<>>
                         /\ NoFindingOf(findings', id) )
              /\ reviews[id].status # "DRAFT"
                    => ( /\ reviews'[id].exists
                         /\ records' = records
                         /\ findings' = findings
                         /\ resp'.code = 200 => reviews'[id].status = "ARCHIVED" )]_vars

\* C14 witness: a cycle that was not in DRAFT was archived and kept its access
\* record and its findings
C14_Witness ==
    /\ resp.op = "reviewDelete"
    /\ resp.code = 200
    /\ resp.error = "archived"
    /\ reviews[resp.target].status = "ARCHIVED"
    /\ Len(records[resp.target]) = 1
    /\ ~NoFindingOf(findings, resp.target)

\* the unordered role pair of a conflict row
RolePair(row) == {row.role1Id, row.role2Id}

\* C17: whatever conflict creates, updates and deletes were handled one at a
\* time, no two conflict rows of one application hold the same unordered role
\* pair and no row pairs a role with itself; a create that was rejected leaves
\* the conflict rows as they were.
C17_ConflictPairsUnique ==
    /\ [](\A i, j \in 1..Len(sodConflicts) :
             /\ sodConflicts[i].role1Id # sodConflicts[i].role2Id
             /\ (i # j /\ sodConflicts[i].applicationId = sodConflicts[j].applicationId)
                    => RolePair(sodConflicts[i]) # RolePair(sodConflicts[j]))
    /\ [][(resp'.op = "sodPost" /\ resp'.code # 201) => sodConflicts' = sodConflicts]_vars

\* C17 witness: with the row for (role1, role2) in place and updated, a create
\* for (role2, role1) on the same application was rejected
C17_Witness ==
    /\ resp.op = "sodPost"
    /\ resp.code = 400
    /\ resp.error = "A conflict between these roles already exists"
    /\ resp.request.role1Id = "role2"
    /\ resp.request.role2Id = "role1"
    /\ Len(sodConflicts) = 1
    /\ sodConflicts[1].role1Id = "role1"
    /\ sodConflicts[1].role2Id = "role2"
    /\ sodConflicts[1].severity = "LOW"

\* the ids of the roles of an application whose name is one of the given names,
\* case aside
LookedUpIds(names, applicationId) ==
    { roles[k].id : k \in { k \in 1..Len(roles) :
                              /\ roles[k].applicationId = applicationId
                              /\ \E n \in 1..Len(names) :
                                    ToLower(names[n]) = ToLower(roles[k].name) } }

\* some rule of the application has both of its roles among the ids
RuleWithin(ids, applicationId) ==
    \E k \in 1..Len(sodConflicts) :
        /\ sodConflicts[k].applicationId = applicationId
        /\ RolePair(sodConflicts[k]) \subseteq ids

\* C15: every access record an import persists carries hasSodConflict = TRUE
\* exactly when the role ids its role names resolve to, case aside, in the
\* catalog of the cycle's application include both roles of some SoD rule of
\* that application; the role names are stored as sent, matched or not.
C15_SodConflictIffBothRolesOfARule ==
    [][(resp'.op = "import" /\ resp'.code = 200)
       => LET id == resp'.target
              app == reviews[id].applicationId
              sent == SelectSeq(resp'.request, LAMBDA r : ~InsertThrows(r))
              new == SubSeq(records'[id], Len(records[id]) + 1, Len(records'[id]))
          IN  /\ Len(new) = Len(sent)
              /\ \A i \in 1..Len(new) :
                    /\ new[i].roles = sent[i].roles
                    /\ new[i].hasSodConflict
                          <=> RuleWithin(LookedUpIds(sent[i].roles, app), app)]_vars

\* C15 witness: a record listing approver, an unknown role and REQUESTER was
\* persisted with its three names and flagged, the rule of a1 being written
\* (requester, approver) against catalog names Approver and requester
C15_Witness ==
    /\ resp.op = "import"
    /\ resp.code = 200
    /\ resp.target = "r1"
    /\ Len(records["r1"]) = 1
    /\ records["r1"][1].roles = <<"approver", "Ghost", "REQUESTER">>
    /\ records["r1"][1].hasSodConflict
    /\ sodConflicts = << SodRule("c1", "a1", "role2", "role1") >>

DefaultFrameworks(table) ==
    { fw \in DOMAIN table : table[fw].exists /\ table[fw].isDefault }

\* C18: whatever framework creates and updates were handled one at a time, at
\* most one framework is the default, and a create or update carrying
\* isDefault = true that was carried out leaves its framework the only default.
C18_AtMostOneDefaultFramework ==
    /\ [](Cardinality(DefaultFrameworks(frameworks)) <= 1)
    /\ [][(/\ resp'.op \in {"frameworkPost", "frameworkPut"}
           /\ resp'.code \in {200, 201}
           /\ IsDefaultTruthy(resp'.request))
          => DefaultFrameworks(frameworks') = {resp'.target}]_vars

\* C18 witness: after a create, an update carrying isDefault = true made the
\* seeded framework the default; the framework created before is not one
C18_Witness ==
    /\ resp.op = "frameworkPut"
    /\ resp.code = 200
    /\ resp.target = "fw1"
    /\ IsDefaultTruthy(resp.request)
    /\ frameworks["fw1"].isDefault
    /\ \E fw \in FrameworkSlots \ {"fw1"} :
          /\ frameworks[fw].exists
          /\ ~frameworks[fw].isDefault
    /\ now = 2

\* C19: in an import that passed validation, a record whose insert throws is
\* left out and reported under its username while the records after it are
\* still handled: the records persisted are the other records of the payload in
\* their order, imported counts them, errors counts the failed ones, the two add
\* up to the length of the payload, and errorDetails lists the first
\* min(errors, 10) failures in the order of the payload.
C19_FailedRecordsSkippedAndReported ==
    [][(resp'.op = "import" /\ resp'.code = 200)
       => LET id == resp'.target
              sent == resp'.request
              failed == SelectSeq(sent, InsertThrows)
              kept == SelectSeq(sent, LAMBDA r : ~InsertThrows(r))
              new == SubSeq(records'[id], Len(records[id]) + 1, Len(records'[id]))
              data == resp'.data
          IN  /\ Len(new) = Len(kept)
              /\ \A i \in 1..Len(new) : new[i].username = kept[i].username
              /\ data.imported = Len(kept)
              /\ data.errors = Len(failed)
              /\ data.imported + data.errors = Len(sent)
              /\ Len(data.errorDetails) = IF Len(failed) < 10 THEN Len(failed) ELSE 10
              /\ \A i \in 1..Len(data.errorDetails) :
                    data.errorDetails[i].record = failed[i].username]_vars

\* C19 witness: of twelve records the first failed, the second was persisted and
\* the ten after it failed too: eleven errors, ten of them returned, the last one
\* left out
C19_Witness ==
    /\ resp.op = "import"
    /\ resp.code = 200
    /\ resp.data.errors = 11
    /\ resp.data.imported = Len(resp.request) - 11
    /\ Len(resp.data.errorDetails) = 10
    /\ resp.data.errorDetails[1].record = "u01"
    /\ resp.data.errorDetails[2].record = "u03"
    /\ records["r1"][1].username = "u02"

\* C20: an import whose payload holds a record the schema refuses (an empty
\* username, an email that is no address) inserts no access record and leaves
\* the cycle as it was; when the request got as far as the payload, the answer
\* is 400 "Validation error".
C20_InvalidPayloadAbortsImport ==
    [][(resp'.op = "import")
       => \A session \in Sessions, body \in {InvalidBody, InvalidEmailBody} :
             LET id == resp'.target
             IN  ImportPOST(session, id, body)
                    => ( /\ resp'.code # 200
                         /\ records' = records
                         /\ reviews' = reviews
                         /\ ( /\ Authorised(session)
                              /\ reviews[id].exists
                              /\ ImportAllowed(reviews[id].status) )
                               => (resp'.code = 400 /\ resp'.error = "Validation error") )]_vars

\* C20 witness: a cycle in data collection that holds a record refused a payload
\* and holds that record only, with the stamps of its first import
C20_Witness ==
    /\ resp.op = "import"
    /\ resp.code = 400
    /\ resp.error = "Validation error"
    /\ reviews[resp.target].status = "DATA_COLLECTION"
    /\ reviews[resp.target].startedAt = 1
    /\ reviews[resp.target].snapshotDate = 1
    /\ records[resp.target] = <<LoadedRecord("jdoe")>>

\* C21: an import into a cycle that is in DATA_COLLECTION appends: the rows the
\* cycle held are all there, unchanged and in front, one row is added for every
\* record that persisted, a username that was stored already included, and the
\* status, startedAt and snapshotDate of the cycle are as before.
C21_ImportInCollectionAppends ==
    [][(/\ resp'.op = "import"
        /\ resp'.code = 200
        /\ reviews[resp'.target].status = "DATA_COLLECTION")
       => LET id == resp'.target
              kept == SelectSeq(resp'.request, LAMBDA r : ~InsertThrows(r))
          IN  /\ Len(records'[id]) = Len(records[id]) + Len(kept)
              /\ SubSeq(records'[id], 1, Len(records[id])) = records[id]
              /\ \A i \in 1..Len(kept) :
                    records'[id][Len(records[id]) + i].username = kept[i].username
              /\ reviews'[id] = reviews[id]]_vars

\* C21 witness: a cycle in data collection that held a row for jdoe imported a
\* record for jdoe and holds two rows for jdoe, the old one first, with the
\* stamps of its first import
C21_Witness ==
    /\ resp.op = "import"
    /\ resp.code = 200
    /\ reviews[resp.target].status = "DATA_COLLECTION"
    /\ reviews[resp.target].startedAt = 1
    /\ reviews[resp.target].snapshotDate = 1
    /\ Len(records[resp.target]) = 2
    /\ records[resp.target][1] = LoadedRecord("jdoe")
    /\ records[resp.target][2].username = "jdoe"
    /\ records[resp.target][2] # LoadedRecord("jdoe")

\* C22: a request that creates, updates or deletes a role or an SoD conflict
\* rule, and an update of a finding, leave every stored access record as the
\* import wrote it: roles, employeeId and the flags included.
C22_AccessRecordsAreASnapshot ==
    [][(resp'.op \in { "rolePost", "rolePut", "roleDelete",
                       "sodPost", "sodPut", "sodDelete", "findingPut" })
       => records' = records]_vars

\* C22 witness: the rule that flagged jdoe was deleted and the role Approver is
\* no longer privileged, and the record of jdoe still carries both flags
C22_Witness ==
    /\ resp.op = "rolePut"
    /\ resp.code = 200
    /\ sodConflicts = << >>
    /\ ~hasPrivilegedAccess(<<"approver", "REQUESTER">>,
                            roleNameMap(OfApplication(roles, "a1")))
    /\ records["r1"][1].roles = <<"approver", "REQUESTER">>
    /\ records["r1"][1].employeeId = "emp1"
    /\ records["r1"][1].hasSodConflict
    /\ records["r1"][1].hasPrivilegedAccess

-----------------------------------------------------------------------------
(* Deleting a cycle that holds data                                         *)

\* the cycle owns a row of user_access_records or of findings
OwnsData(id) ==
    \/ records[id] # <<>>
    \/ \E f \in DOMAIN findings : findings[f].exists /\ findings[f].reviewCycleId = id

\* C27: a delete request answered 200 on a cycle that owns a record or a finding
\* archives the cycle: the row stays, its status becomes ARCHIVED and its records
\* are kept
C27_CycleWithDataIsArchived ==
    [][\A id \in ReviewIds :
          ( /\ resp'.op = "reviewDelete" /\ resp'.target = id /\ resp'.code = 200
            /\ reviews[id].exists
            /\ OwnsData(id) )
          => ( /\ reviews'[id].exists
               /\ reviews'[id].status = "ARCHIVED"
               /\ records'[id] = records[id] )]_vars

-----------------------------------------------------------------------------
(* The lifecycle of the first cycle under payloads of at most one record    *)

\* bound: the number of requests handled on the first cycle
MaxSingleTime == 3

NextSingle ==
    \E session \in Sessions :
        \/ \E body \in ReviewUpdates : now < MaxSingleTime /\ ReviewPUT(session, "r1", body)
        \/ \E body \in SchemaBodies : now < MaxSingleTime /\ ImportPOST(session, "r1", body)
        \/ now < MaxSingleTime /\ ClearDELETE(session, "r1")
        \/ now < MaxSingleTime /\ ReviewDELETE(session, "r1")

SpecSingle == InitReview /\ [][NextSingle]_vars

-----------------------------------------------------------------------------
(* completedAt of a completed cycle                                         *)

\* C29: a cycle in COMPLETED has a completedAt, and no request turns a
\* completedAt that is set back to NULL on a row that stays
C29_CompletedHasCompletedAt ==
    /\ [](\A id \in ReviewIds :
            (reviews[id].exists /\ reviews[id].status = "COMPLETED")
            => reviews[id].completedAt # NoTime)
    /\ [][\A id \in ReviewIds :
            (reviews[id].exists /\ reviews[id].completedAt # NoTime /\ reviews'[id].exists)
            => reviews'[id].completedAt # NoTime]_vars

\* the cycle was completed by the first request, left COMPLETED and was completed
\* again by the third: it still carries the stamp of the first
C29_Witness ==
    /\ resp.op = "reviewPut" /\ resp.code = 200
    /\ now = 3
    /\ reviews["r1"].exists
    /\ reviews["r1"].status = "COMPLETED"
    /\ reviews["r1"].completedAt = 1

-----------------------------------------------------------------------------
(* The counts of an import result                                           *)

\* C30: in the result of an import, matched + unmatched = imported
C30_MatchedPlusUnmatchedIsImported ==
    (resp.op = "import" /\ resp.code = 200)
    => resp.data.matched + resp.data.unmatched = resp.data.imported

-----------------------------------------------------------------------------
(* Overlapping requests.  Each handler awaits its statements one by one and *)
(* wraps them in no transaction, so the statements of two requests may      *)
(* alternate.  A request is a process: it starts once, keeps its locals in  *)
(* inflight and answers when it is done.                                    *)

\* the two requests in flight at the same time
Procs == {"p1", "p2"}

\* the request has not been received yet
Idle(p) == p \notin DOMAIN inflight

\* the request is op, and stands before its statement pc
At(p, op, pc) ==
    /\ p \in DOMAIN inflight
    /\ inflight[p].op = op
    /\ inflight[p].pc = pc

\* the locals of a request that has answered
Answered(op, target, code) == [op |-> op, pc |-> "done", target |-> target, code |-> code]

\* every request was received and has answered
AllAnswered == \A p \in Procs : p \in DOMAIN inflight /\ inflight[p].pc = "done"

\* the request stores its locals
Store(p, locals) == inflight' = (p :> locals) @@ inflight

-----------------------------------------------------------------------------
(* PUT /api/findings/[id], statement by statement                           *)

\* the row the select of updateReviewCycleCounts returns
CountsOf(table, reviewCycleId) ==
    [ total |-> TotalOf(table, reviewCycleId),
      critical |-> OpenOfSeverity(table, reviewCycleId, "CRITICAL"),
      high |-> OpenOfSeverity(table, reviewCycleId, "HIGH"),
      medium |-> OpenOfSeverity(table, reviewCycleId, "MEDIUM"),
      low |-> OpenOfSeverity(table, reviewCycleId, "LOW") ]

\* the update of review_cycles that ends updateReviewCycleCounts
SetCounts(reviewTable, reviewCycleId, counts) ==
    [ reviewTable EXCEPT
        ![reviewCycleId].totalFindings = counts.total,
        ![reviewCycleId].criticalFindings = counts.critical,
        ![reviewCycleId].highFindings = counts.high,
        ![reviewCycleId].mediumFindings = counts.medium,
        ![reviewCycleId].lowFindings = counts.low ]

\* auth(), parse and findFirst: the request answers at once, or keeps the cycle
\* of the finding it read
FindingRead(p, session, id, body) ==
    LET existingFinding == findings[id]
        reject(code, error) ==
            /\ resp' = Reply("findingPut", id, code, error)
            /\ Store(p, Answered("findingPut", id, code))
    IN  /\ Idle(p)
        /\ now' = now + 1
        /\ UNCHANGED <<reviews, records, employees, findings, applications, frameworks,
                       roles, sodConflicts, reports>>
        /\ IF session = NoSession THEN reject(401, "Unauthorized")
           ELSE IF ~MayMutate(session) THEN reject(403, "Forbidden")
           ELSE IF ~updateFindingSchemaOk(body) THEN reject(400, "Validation error")
           ELSE IF ~existingFinding.exists THEN reject(404, "Finding not found")
           ELSE /\ Store(p, [ op |-> "findingPut", pc |-> "update", target |-> id,
                              body |-> body, user |-> session.id,
                              reviewCycleId |-> existingFinding.reviewCycleId ])
                /\ UNCHANGED resp

\* db.update(findings).set(updateData).where(id)
FindingWrite(p) ==
    /\ At(p, "findingPut", "update")
    /\ now' = now + 1
    /\ findings' = [findings EXCEPT ![inflight[p].target] =
                       FindingUpdate(@, inflight[p].body, inflight[p].user, now + 1)]
    /\ Store(p, [inflight[p] EXCEPT !.pc = "count"])
    /\ UNCHANGED <<reviews, records, employees, applications, frameworks, roles,
                   sodConflicts, reports, resp>>

\* updateReviewCycleCounts, its select
FindingCount(p) ==
    /\ At(p, "findingPut", "count")
    /\ now' = now + 1
    /\ Store(p, [ op |-> "findingPut", pc |-> "overwrite", target |-> inflight[p].target,
                  reviewCycleId |-> inflight[p].reviewCycleId,
                  counts |-> CountsOf(findings, inflight[p].reviewCycleId) ])
    /\ UNCHANGED <<reviews, records, employees, findings, applications, frameworks, roles,
                   sodConflicts, reports, resp>>

\* updateReviewCycleCounts, its update; the request then answers 200
FindingOverwrite(p) ==
    /\ At(p, "findingPut", "overwrite")
    /\ now' = now + 1
    /\ reviews' = SetCounts(reviews, inflight[p].reviewCycleId, inflight[p].counts)
    /\ resp' = Reply("findingPut", inflight[p].target, 200, "")
    /\ Store(p, Answered("findingPut", inflight[p].target, 200))
    /\ UNCHANGED <<records, employees, findings, applications, frameworks, roles,
                   sodConflicts, reports>>

\* the bodies of the overlapping updates: a status, a dismissal, or a body the
\* schema refuses
RaceFindingBodies ==
    { b \in FindingUpdates : b.decision \in {Undefined, "DISMISS"} }

\* two updates on the findings of the first cycle
NextFindingRace ==
    \E p \in Procs :
        \/ \E session \in Sessions, id \in {"f1", "f2"}, body \in RaceFindingBodies :
              FindingRead(p, session, id, body)
        \/ FindingWrite(p)
        \/ FindingCount(p)
        \/ FindingOverwrite(p)

SpecFindingRace == InitFinding /\ [][NextFindingRace]_vars

\* C23: once two overlapping finding updates of one cycle have both answered 200,
\* the counters of the cycle equal the live distribution of its findings
C23_CountersAfterConcurrentUpdates ==
    ( /\ AllAnswered
      /\ \A p \in Procs : inflight[p].op = "findingPut" /\ inflight[p].code = 200 )
    => reviews["r1"] = SetCounts(reviews, "r1", CountsOf(findings, "r1"))["r1"]

-----------------------------------------------------------------------------
(* POST /api/reviews/[id]/import and PUT /api/reviews/[id], statement by    *)
(* statement, with clear and delete requests served in between              *)

\* bound: the clock value at which clear and delete requests stop
MaxRaceTime == 6

\* the catch of the loop when the insert is refused by the foreign key on
\* review_cycle_id: the record is counted, then pushed to errors
ImportStepRefused(acc, record, ctx) ==
    LET emp == matchedEmployee(ctx.employeeMap, record)
    IN  [acc EXCEPT !.matchedCount = IF emp.exists THEN @ + 1 ELSE @,
                    !.unmatchedCount = IF emp.exists THEN @ ELSE @ + 1,
                    !.errors = Append(@, [record |-> record.username,
                                          error |-> "violates foreign key constraint"])]

\* auth(), findFirst with the roles and rules of the application, the status
\* check, parse, employees.findMany(): the request answers at once, or keeps the
\* row it read
ImportRead(p, session, id, body) ==
    LET review == reviews[id]
        reject(code, error) ==
            /\ resp' = Reply("import", id, code, error)
            /\ Store(p, Answered("import", id, code))
    IN  /\ Idle(p)
        /\ now' = now + 1
        /\ UNCHANGED <<reviews, records, employees, findings, applications, frameworks,
                       roles, sodConflicts, reports>>
        /\ IF session = NoSession THEN reject(401, "Unauthorized")
           ELSE IF ~MayMutate(session) THEN reject(403, "Forbidden")
           ELSE IF ~review.exists THEN reject(404, "Review not found")
           ELSE IF ~ImportAllowed(review.status) THEN reject(400, "Cannot import data")
           ELSE IF ~importSchemaOk(body) THEN reject(400, "Validation error")
           ELSE /\ Store(p, [ op |-> "import", pc |-> "insert", target |-> id,
                              review |-> review, batch |-> body.records,
                              employeeMap |-> employeeMap(employees),
                              roleNameMap |->
                                  roleNameMap(OfApplication(roles, review.applicationId)),
                              sodConflicts |->
                                  OfApplication(sodConflicts, review.applicationId),
                              acc |-> EmptyImport, done |-> 0 ])
                /\ UNCHANGED resp

\* one pass of the for loop: the insert meets the tables as they are now
ImportInsert(p) ==
    LET l == inflight[p]
        id == l.target
        record == l.batch[l.done + 1]
        ctx == [ employeeMap |-> l.employeeMap, roleNameMap |-> l.roleNameMap,
                 sodConflicts |-> l.sodConflicts, now |-> now + 1 ]
        acc == IF reviews[id].exists THEN ImportStep(l.acc, record, ctx)
               ELSE ImportStepRefused(l.acc, record, ctx)
    IN  /\ At(p, "import", "insert")
        /\ l.done < Len(l.batch)
        /\ now' = now + 1
        /\ records' = [records EXCEPT ![id] =
                          InsertRecords(@, SubSeq(acc.importedRecords,
                                                  Len(l.acc.importedRecords) + 1,
                                                  Len(acc.importedRecords)))]
        /\ Store(p, [l EXCEPT !.acc = acc, !.done = @ + 1])
        /\ UNCHANGED <<reviews, employees, findings, applications, frameworks, roles,
                       sodConflicts, reports, resp>>

\* after the loop: the update guarded by the status read at the start, then the
\* answer
ImportFinish(p) ==
    LET l == inflight[p]
        id == l.target
    IN  /\ At(p, "import", "insert")
        /\ l.done = Len(l.batch)
        /\ now' = now + 1
        /\ reviews' = [reviews EXCEPT ![id] =
                          IF @.exists
                          THEN ImportTransition([@ EXCEPT !.status = l.review.status], now + 1)
                          ELSE @]
        /\ resp' = [ op |-> "import", target |-> id, code |-> 200, error |-> "",
                     request |-> l.batch, data |-> ImportData(l.acc) ]
        /\ Store(p, Answered("import", id, 200))
        /\ UNCHANGED <<records, employees, findings, applications, frameworks, roles,
                       sodConflicts, reports>>

\* auth(), parse, findFirst: the request answers at once, or keeps the row it read
ReviewRead(p, session, id, body) ==
    LET existingReview == reviews[id]
        reject(code, error) ==
            /\ resp' = Reply("reviewPut", id, code, error)
            /\ Store(p, Answered("reviewPut", id, code))
    IN  /\ Idle(p)
        /\ now' = now + 1
        /\ UNCHANGED <<reviews, records, employees, findings, applications, frameworks,
                       roles, sodConflicts, reports>>
        /\ IF session = NoSession THEN reject(401, "Unauthorized")
           ELSE IF ~MayMutate(session) THEN reject(403, "Forbidden")
           ELSE IF ~existingReview.exists THEN reject(404, "Review not found")
           ELSE /\ Store(p, [ op |-> "reviewPut", pc |-> "update", target |-> id,
                              existingReview |-> existingReview, body |-> body ])
                /\ UNCHANGED resp

\* update(reviewCycles).set(updateData): the columns updateData names are written
\* over the row as it is now, the others are left alone
ReviewPatch(current, existing, body, t) ==
    LET updateData == ReviewUpdate(existing, body, t)
    IN  [current EXCEPT
            !.status = IF body.status # Undefined THEN updateData.status ELSE @,
            !.startedAt =
                IF updateData.startedAt # existing.startedAt THEN updateData.startedAt ELSE @,
            !.completedAt =
                IF updateData.completedAt # existing.completedAt
                THEN updateData.completedAt ELSE @,
            !.snapshotDate =
                IF body.snapshotDate # Undefined THEN updateData.snapshotDate ELSE @]

\* the update of the row, then the answer
ReviewWrite(p) ==
    LET l == inflight[p]
        id == l.target
    IN  /\ At(p, "reviewPut", "update")
        /\ now' = now + 1
        /\ reviews' = [reviews EXCEPT ![id] =
                          IF @.exists THEN ReviewPatch(@, l.existingReview, l.body, now + 1)
                          ELSE @]
        /\ resp' = Reply("reviewPut", id, 200, "")
        /\ Store(p, Answered("reviewPut", id, 200))
        /\ UNCHANGED <<records, employees, findings, applications, frameworks, roles,
                       sodConflicts, reports>>

\* an import and a generic update of the first cycle, overlapping each other and
\* clear and delete requests
NextReviewRace ==
    \/ \E session \in Sessions, body \in SchemaBodies : ImportRead("p1", session, "r1", body)
    \/ ImportInsert("p1")
    \/ ImportFinish("p1")
    \/ \E session \in Sessions, body \in ReviewUpdates : ReviewRead("p2", session, "r1", body)
    \/ ReviewWrite("p2")
    \/ \E session \in Sessions : now < MaxRaceTime /\ ClearDELETE(session, "r1")
    \/ \E session \in Sessions : now < MaxRaceTime /\ ReviewDELETE(session, "r1")

SpecReviewRace == InitReview /\ [][NextReviewRace]_vars

\* C24: a record is inserted only into a cycle that is in DRAFT or DATA_COLLECTION
\* at that moment, and the import's own update turns a cycle into DATA_COLLECTION
\* only from DRAFT, whatever runs between the import's status check and its writes
C24_ImportWritesOnlyInCollection ==
    [][\A id \in ReviewIds :
          /\ Len(records'[id]) > Len(records[id])
             => (reviews[id].exists /\ reviews[id].status \in {"DRAFT", "DATA_COLLECTION"})
          /\ ( /\ \E p \in Procs : At(p, "import", "insert") /\ inflight'[p].pc = "done"
               /\ reviews[id].exists
               /\ reviews'[id].status = "DATA_COLLECTION"
               /\ reviews'[id] # reviews[id] )
             => reviews[id].status = "DRAFT"]_vars

\* C28: a cycle in DATA_COLLECTION has a startedAt, also when a generic update to
\* DATA_COLLECTION and a clear of the cycle overlap
C28_CollectionHasStartedAt ==
    \A id \in ReviewIds :
        (reviews[id].exists /\ reviews[id].status = "DATA_COLLECTION")
        => reviews[id].startedAt # NoTime

-----------------------------------------------------------------------------
(* POST /api/applications/[id]/sod-conflicts, statement by statement        *)

\* auth(), parse, the lookups of the application and of both roles, and the
\* search for an existing rule: the request answers at once, or goes on to insert
SodCheck(p, session, id, body) ==
    LET reject(code, error) ==
            /\ resp' = [ op |-> "sodPost", target |-> id, code |-> code, error |-> error,
                         request |-> body ]
            /\ Store(p, Answered("sodPost", id, code))
    IN  /\ Idle(p)
        /\ now' = now + 1
        /\ UNCHANGED sodConflicts
        /\ SodUnchanged
        /\ IF session = NoSession THEN reject(401, "Unauthorized")
           ELSE IF ~MayMutate(session) THEN reject(403, "Forbidden")
           ELSE IF ~createSodConflictSchemaOk(body) THEN reject(400, "Validation error")
           ELSE IF ~applications[id].exists THEN reject(404, "Application not found")
           ELSE IF ~(RoleOfApplication(body.role1Id, id) /\ RoleOfApplication(body.role2Id, id))
                THEN reject(400, "One or both roles not found")
           ELSE IF body.role1Id = body.role2Id
                THEN reject(400, "Cannot create conflict between the same role")
           ELSE IF ConflictExists(id, body)
                THEN reject(400, "A conflict between these roles already exists")
           ELSE /\ Store(p, [op |-> "sodPost", pc |-> "insert", target |-> id, body |-> body])
                /\ UNCHANGED resp

\* insert(sodConflicts).values(...), then the answer 201
SodInsert(p) ==
    LET l == inflight[p]
    IN  /\ At(p, "sodPost", "insert")
        /\ now' = now + 1
        /\ SodUnchanged
        /\ \E conflictId \in ConflictIds \ { sodConflicts[i].id : i \in 1..Len(sodConflicts) } :
              sodConflicts' = Append(sodConflicts, NewSodConflict(conflictId, l.target, l.body))
        /\ resp' = [ op |-> "sodPost", target |-> l.target, code |-> 201, error |-> "",
                     request |-> l.body ]
        /\ Store(p, Answered("sodPost", l.target, 201))

\* two creates on the first application
NextSodRace ==
    \E p \in Procs :
        \/ \E session \in Sessions, body \in SodConflictCreates :
              SodCheck(p, session, "a1", body)
        \/ SodInsert(p)

SpecSodRace == InitConflict /\ [][NextSodRace]_vars

\* C26: once two overlapping creates have both answered, no two rules of one
\* application name the same unordered pair of roles
C26_PairUniqueAfterConcurrentCreates ==
    AllAnswered
    => \A i, j \in 1..Len(sodConflicts) :
          ( /\ i # j
            /\ sodConflicts[i].applicationId = sodConflicts[j].applicationId )
          => {sodConflicts[i].role1Id, sodConflicts[i].role2Id}
                # {sodConflicts[j].role1Id, sodConflicts[j].role2Id}

-----------------------------------------------------------------------------
(* POST /api/frameworks and PUT /api/frameworks/[id], statement by statement *)

\* the request writes its row at once
SkipUnset(body, write) == write

\* "If this is being set as default, unset other defaults": the statement the
\* request runs first, the unset or its own write
FirstStatement(body, write) == IF IsDefaultTruthy(body) THEN "unset" ELSE write

\* POST: auth() and parse
FrameworkReceive(p, session, body) ==
    LET reject(code, error) ==
            /\ resp' = [ op |-> "frameworkPost", target |-> "none", code |-> code,
                         error |-> error, request |-> body ]
            /\ Store(p, Answered("frameworkPost", "none", code))
    IN  /\ Idle(p)
        /\ now' = now + 1
        /\ UNCHANGED frameworks
        /\ FrameworkUnchanged
        /\ IF session = NoSession THEN reject(401, "Unauthorized")
           ELSE IF ~MayManageFrameworks(session) THEN reject(403, "Forbidden")
           ELSE IF ~createFrameworkSchemaOk(body) THEN reject(400, "Validation error")
           ELSE /\ Store(p, [ op |-> "frameworkPost", pc |-> FirstStatement(body, "insert"),
                              target |-> "none", body |-> body, write |-> "insert" ])
                /\ UNCHANGED resp

\* PUT: auth(), parse and findFirst
FrameworkFind(p, session, id, body) ==
    LET reject(code, error) ==
            /\ resp' = [ op |-> "frameworkPut", target |-> id, code |-> code,
                         error |-> error, request |-> body ]
            /\ Store(p, Answered("frameworkPut", id, code))
    IN  /\ Idle(p)
        /\ now' = now + 1
        /\ UNCHANGED frameworks
        /\ FrameworkUnchanged
        /\ IF session = NoSession THEN reject(401, "Unauthorized")
           ELSE IF ~MayManageFrameworks(session) THEN reject(403, "Forbidden")
           ELSE IF ~updateFrameworkSchemaOk(body) THEN reject(400, "Validation error")
           ELSE IF ~frameworks[id].exists THEN reject(404, "Framework not found")
           ELSE /\ Store(p, [ op |-> "frameworkPut", pc |-> FirstStatement(body, "update"),
                              target |-> id, body |-> body, write |-> "update" ])
                /\ UNCHANGED resp

\* update(frameworks).set({isDefault: false}).where(isDefault = true), of either
\* handler
FrameworkUnset(p) ==
    /\ p \in DOMAIN inflight
    /\ inflight[p].pc = "unset"
    /\ now' = now + 1
    /\ frameworks' = UnsetDefaults(frameworks)
    /\ Store(p, [inflight[p] EXCEPT !.pc = inflight[p].write])
    /\ UNCHANGED resp
    /\ FrameworkUnchanged

\* POST: insert(frameworks).values(...), then the answer 201
FrameworkInsert(p) ==
    LET l == inflight[p]
    IN  /\ At(p, "frameworkPost", "insert")
        /\ now' = now + 1
        /\ FrameworkUnchanged
        /\ \E id \in { fw \in FrameworkSlots : ~frameworks[fw].exists } :
              /\ frameworks' = [frameworks EXCEPT ![id] = NewFramework(l.body)]
              /\ resp' = [ op |-> "frameworkPost", target |-> id, code |-> 201,
                           error |-> "", request |-> l.body ]
              /\ Store(p, Answered("frameworkPost", id, 201))

\* PUT: update(frameworks).set(updateData).where(id), then the answer 200
FrameworkSet(p) ==
    LET l == inflight[p]
    IN  /\ At(p, "frameworkPut", "update")
        /\ now' = now + 1
        /\ FrameworkUnchanged
        /\ frameworks' = [frameworks EXCEPT ![l.target] = FrameworkUpdate(@, l.body)]
        /\ resp' = [ op |-> "frameworkPut", target |-> l.target, code |-> 200,
                     error |-> "", request |-> l.body ]
        /\ Store(p, Answered("frameworkPut", l.target, 200))

\* two framework requests, each a create or an update of the seeded framework
NextFrameworkRace ==
    \E p \in Procs :
        \/ \E session \in Sessions, body \in FrameworkCreates :
              FrameworkReceive(p, session, body)
        \/ \E session \in Sessions, body \in FrameworkUpdates :
              FrameworkFind(p, session, "fw1", body)
        \/ FrameworkUnset(p)
        \/ FrameworkInsert(p)
        \/ FrameworkSet(p)

SpecFrameworkRace == InitFramework /\ [][NextFrameworkRace]_vars

\* C25: every accepted set-default request runs the unset before its own write,
\* and the unset leaves no framework default; the write that follows is a
\* statement of its own (two such requests can then each mark a framework, see
\* the witness)
C25_SetDefaultPassesThroughNoDefault ==
    [][\A p \in Procs :
          /\ ( /\ Idle(p)
               /\ p \in DOMAIN inflight'
               /\ inflight'[p].pc # "done"
               /\ IsDefaultTruthy(inflight'[p].body) )
             => (inflight'[p].pc = "unset" /\ frameworks' = frameworks)
          /\ ( /\ p \in DOMAIN inflight
               /\ inflight[p].pc = "unset"
               /\ inflight'[p].pc # "unset" )
             => ( /\ DefaultFrameworks(frameworks') = {}
                  /\ inflight'[p].pc \in {"insert", "update"} )
          /\ ( /\ p \in DOMAIN inflight
               /\ inflight[p].pc \in {"insert", "update"}
               /\ inflight'[p].pc = "done"
               /\ IsDefaultTruthy(inflight[p].body) )
             => resp'.target \in DefaultFrameworks(frameworks')]_vars

\* two set-default requests, a create and an update, have both answered and two
\* frameworks are default
C25_Witness ==
    /\ AllAnswered
    /\ inflight["p1"].op = "frameworkPost" /\ inflight["p1"].code = 201
    /\ inflight["p2"].op = "frameworkPut" /\ inflight["p2"].code = 200
    /\ Cardinality(DefaultFrameworks(frameworks)) = 2
    /\ inflight["p1"].target \in DefaultFrameworks(frameworks)
    /\ inflight["p2"].target \in DefaultFrameworks(frameworks)

=============================================================================
